---------------------------- MODULE Spec2Model ----------------------------
(***************************************************************************)
(* Model of the chess ETL (src/etl.js): the Counts series, the             *)
(* DataAggregator (constructor, getMoveRC, eloSuffix, processGame), the    *)
(* two format readers and the callback chain that runs them.               *)
(*                                                                         *)
(* Conventions.  A JavaScript string that the code indexes (a move token,  *)
(* an item of a pro-format line) is a sequence of one-character strings;   *)
(* a counter name is a TLA+ string.  Indices are 0-based as in the code:   *)
(* CharAt(s, k) is s[k].  NaN is the value NaN below, and the comparisons  *)
(* of the code that involve NaN are false, as in JavaScript.               *)
(***************************************************************************)
EXTENDS Integers, Sequences, FiniteSets, TLC

VARIABLES
    counts,             \* DataAggregator.counts: name -> Counts.data
    totalGamesCounted,  \* DataAggregator.totalGamesCounted
    game,               \* the record last handed to processGame
    noPiece,            \* history: per ply, the moves counted there whose
                        \* piece letter was not found in PIECES
    elo,                \* the argument of the last eloSuffix call (SpecElo)
    suffix,             \* its result
    rd,                 \* the two readers: input, readline state, closure state
    log,                \* history: the callbacks invoked, in order
    dataJs,             \* the file data.js: <<>> until written, then <<blob>>
    codec,              \* the last getMoveRC call on its own: the parts the
                        \* token was made of, the token and the result
    series,             \* a Counts object on its own: its class and its data
    call,               \* history: the last method called on it, its
                        \* arguments and the data before the call
    got,                \* the value the last call returned, if it was a get
    points,             \* the array it returned, if it was a getDomain
    DATA,               \* the blob the page loaded from data.js
    app,                \* the App object of the page
    dom,                \* the checkboxes of #filters: those present, those
                        \* checked and those disabled
    thrown              \* whether the last handler of the page ended in an
                        \* exception nothing caught

\* the state of the ETL
etlVars == <<counts, totalGamesCounted, game, noPiece, elo, suffix, rd, log, dataJs, codec>>

\* the state of a Counts object taken on its own
countsVars == <<series, call, got, points>>

\* the state of the page
appVars == <<DATA, app, dom, thrown>>

vars == <<etlVars, countsVars, appVars>>

(***************************************************************************)
(* Bounds of the model.                                                    *)
(***************************************************************************)
MaxGames == 2      \* processGame calls in one behaviour of Spec
MaxMoves == 2      \* moves of a game record handed to processGame in Spec
EloLo == 1150      \* ratings tried by SpecElo: EloLo .. EloHi
EloHi == 1950
MaxBlocks == 2     \* blocks of lines an input file is made of
MaxCap == 2        \* caps tried by SpecReader: 0 .. MaxCap
MaxLen == 3        \* length of a series a Counts object is built from
MaxVal == 2        \* largest entry of a series in SpecCounts
MaxKeys == 11      \* the user clicks among the first MaxKeys checkboxes
MaxGlyphs == 2     \* trailing glyphs of a token handed to getMoveRC in SpecRC
MaxRaw == 4        \* length of an arbitrary notation handed to it
MaxBoxes == 2      \* SpecTime: the user clicks among the first MaxBoxes checkboxes

\* The cap the chain at the bottom of the file passes to both readers.  It is
\* 100_000_000 in the source (line 459); the model scales it down so that
\* files the model can enumerate hold more games than the cap.
QUANTITY == 1

(***************************************************************************)
(* JavaScript values.                                                      *)
(***************************************************************************)
NaN == -1                   \* ratings are parsed from digits: never negative
Undefined == "undefined"    \* s[k] for k outside the string

isNaN(x) == x = NaN

\* a < b of JavaScript on numbers: false when either side is NaN
Less(a, b) == ~isNaN(a) /\ ~isNaN(b) /\ a < b

CharAt(s, k) == IF k >= 0 /\ k < Len(s) THEN s[k + 1] ELSE Undefined

RECURSIVE IndexOfFrom(_, _, _)
IndexOfFrom(s, ch, k) ==
    IF k >= Len(s) THEN -1
    ELSE IF s[k + 1] = ch THEN k
    ELSE IndexOfFrom(s, ch, k + 1)

\* s.indexOf(ch)
IndexOf(s, ch) == IndexOfFrom(s, ch, 0)

(***************************************************************************)
(* PIECES, Counts, ELO_SUFFIXES.                                           *)
(***************************************************************************)
PIECES ==
    [ch \in {"a", "b", "c", "d", "e", "f", "g", "h"} |-> "pawn"] @@
    ("N" :> "knight") @@ ("R" :> "rook") @@ ("O" :> "castling") @@
    ("B" :> "bishop") @@ ("K" :> "king") @@ ("Q" :> "queen")

PieceNames == {PIECES[k] : k \in DOMAIN PIECES}

ELO_SUFFIXES == <<"", "_low", "_mid", "_hi">>

Suffixes == {ELO_SUFFIXES[k] : k \in DOMAIN ELO_SUFFIXES}

\* count with a fault: the entry is set to 1 instead of being raised by 1
countOverwrites(data, n) ==
    LET padded == IF n > Len(data) - 1
                  THEN data \o [k \in 1..(n + 1 - Len(data)) |-> 0]
                  ELSE data
    IN  [padded EXCEPT ![n + 1] = 1]

\* Counts.count(n) on the data array
count(data, n) ==
    LET padded == IF n > Len(data) - 1
                  THEN data \o [k \in 1..(n + 1 - Len(data)) |-> 0]
                  ELSE data
    IN  [padded EXCEPT ![n + 1] = @ + 1]

\* this.counts.get(name).count(n)
countAt(c, name, n) == [c EXCEPT ![name] = count(@, n)]

(***************************************************************************)
(* DataAggregator.                                                         *)
(***************************************************************************)
FileChars == <<"a", "b", "c", "d", "e", "f", "g", "h">>
RankChars == <<"1", "2", "3", "4", "5", "6", "7", "8">>

\* getRowColName(r, c): String.fromCharCode(97 + r) + (c + 1)
getRowColName(r, c) == FileChars[r + 1] \o RankChars[c + 1]

\* the names the constructor adds
CounterNames ==
    UNION {
        {"total" \o s} \cup
        {v \o s : v \in PieceNames} \cup
        {"pos_" \o getRowColName(r, c) \o s : r \in 0..7, c \in 0..7} \cup
        {"pos_castle" \o s}
      : s \in Suffixes }

\* constructor: one empty Counts per name
NewCounts == [name \in CounterNames |-> <<>>]

RECURSIVE SkipGlyphs(_, _)
SkipGlyphs(move, last) ==
    IF last > 0 /\ CharAt(move, last) \in {"+", "#", "?", "!"}
    THEN SkipGlyphs(move, last - 1)
    ELSE last

\* getMoveRC with a fault: a promotion is not skipped
getMoveRCNoPromotion(move) ==
    LET last == SkipGlyphs(move, Len(move) - 1)
    IN  IF last - 1 < 0 THEN "null"
        ELSE IF CharAt(move, last - 1) \in {"a", "b", "c", "d", "e", "f", "g", "h"}
                /\ CharAt(move, last) \in {"1", "2", "3", "4", "5", "6", "7", "8"}
             THEN CharAt(move, last - 1) \o CharAt(move, last)
             ELSE "null"

\* getMoveRC with a fault: the two characters are returned without the test
\* that they name a cell
getMoveRCNoRangeCheck(move) ==
    LET last1 == SkipGlyphs(move, Len(move) - 1)
        last  == IF last1 >= 3 /\ CharAt(move, last1 - 1) = "="
                 THEN last1 - 2 ELSE last1
    IN  IF last - 1 < 0 THEN "null"
        ELSE CharAt(move, last - 1) \o CharAt(move, last)

\* getMoveRC(move): the destination cell as a string, or "null"
getMoveRC(move) ==
    LET last1 == SkipGlyphs(move, Len(move) - 1)
        last  == IF last1 >= 3 /\ CharAt(move, last1 - 1) = "="
                 THEN last1 - 2 ELSE last1
    IN  IF last - 1 < 0 THEN "null"
        ELSE IF CharAt(move, last - 1) \in {"a", "b", "c", "d", "e", "f", "g", "h"}
                /\ CharAt(move, last) \in {"1", "2", "3", "4", "5", "6", "7", "8"}
             THEN CharAt(move, last - 1) \o CharAt(move, last)
             ELSE "null"

\* eloSuffix(elo)
eloSuffix(e) ==
    IF Less(e, 1225) THEN "_low"
    ELSE IF Less(e, 1875) THEN "_mid"
    ELSE "_hi"

\* moverElo with the fault the comment above it in the source describes: the
\* white rating for every move, the black one when white is unrated
moverEloWhiteFirst(g, i) == IF ~isNaN(g.welo) THEN g.welo ELSE g.belo

\* the rating processGame reads for move i: that of the token's first letter
moverElo(g, i) ==
    IF CharAt(g.moves[i + 1], 0) = "W" THEN g.welo
    ELSE IF CharAt(g.moves[i + 1], 0) = "B" THEN g.belo
    ELSE NaN

\* countWhere with a fault: the untiered destination counter is not counted
countWhereTierOnly(c, g, i) ==
    LET e     == moverElo(g, i)
        rc    == getMoveRC(g.moves[i + 1])
        where == IF rc = "null" THEN "castle" ELSE rc
    IN  IF ~isNaN(e)
        THEN countAt(countAt(c, "total" \o eloSuffix(e), i),
                     "pos_" \o where \o eloSuffix(e), i)
        ELSE c

\* countWhere with a fault: a move without destination is skipped instead
\* of being counted under "castle"
countWhereSkipsNull(c, g, i) ==
    LET e     == moverElo(g, i)
        rc    == getMoveRC(g.moves[i + 1])
    IN  IF ~isNaN(e)
        THEN LET c1 == countAt(c, "total" \o eloSuffix(e), i)
             IN  IF rc = "null" THEN c1
                 ELSE countAt(countAt(c1, "pos_" \o rc, i),
                              "pos_" \o rc \o eloSuffix(e), i)
        ELSE c

\* countWhere with a fault: the tiered destination counter is not counted
countWhereNoTierCell(c, g, i) ==
    LET e     == moverElo(g, i)
        rc    == getMoveRC(g.moves[i + 1])
        where == IF rc = "null" THEN "castle" ELSE rc
    IN  IF ~isNaN(e)
        THEN countAt(countAt(c, "total" \o eloSuffix(e), i), "pos_" \o where, i)
        ELSE c

\* the destination part of the loop body of processGame
countWhere(c, g, i) ==
    LET e     == moverElo(g, i)
        rc    == getMoveRC(g.moves[i + 1])
        where == IF rc = "null" THEN "castle" ELSE rc
    IN  IF ~isNaN(e)
        THEN countAt(countAt(countAt(c, "total" \o eloSuffix(e), i),
                             "pos_" \o where, i),
                     "pos_" \o where \o eloSuffix(e), i)
        ELSE c

\* countPiece with a fault: the tiered piece counter is counted without the
\* test that the rating is known
countPieceTierAlways(c, g, i) ==
    LET e           == moverElo(g, i)
        dotLocation == IndexOf(g.moves[i + 1], ".")
        piece       == CharAt(g.moves[i + 1], dotLocation + 1)
    IN  IF dotLocation # -1 /\ piece \in DOMAIN PIECES
        THEN countAt(countAt(c, PIECES[piece], i),
                     PIECES[piece] \o eloSuffix(e), i)
        ELSE c

\* countPiece with a fault: the test that the token holds a '.' is missing
countPieceNoDotCheck(c, g, i) ==
    LET e           == moverElo(g, i)
        dotLocation == IndexOf(g.moves[i + 1], ".")
        piece       == CharAt(g.moves[i + 1], dotLocation + 1)
    IN  IF piece \in DOMAIN PIECES
        THEN LET c1 == countAt(c, PIECES[piece], i)
             IN  IF ~isNaN(e)
                 THEN countAt(c1, PIECES[piece] \o eloSuffix(e), i)
                 ELSE c1
        ELSE c

\* countPiece with a fault: castling is counted as a move of the king
countPieceCastlingAsKing(c, g, i) ==
    LET e           == moverElo(g, i)
        dotLocation == IndexOf(g.moves[i + 1], ".")
        piece       == CharAt(g.moves[i + 1], dotLocation + 1)
        name        == IF piece = "O" THEN "king" ELSE PIECES[piece]
    IN  IF dotLocation # -1 /\ piece \in DOMAIN PIECES
        THEN LET c1 == countAt(c, name, i)
             IN  IF ~isNaN(e)
                 THEN countAt(c1, name \o eloSuffix(e), i)
                 ELSE c1
        ELSE c

\* countPiece with a fault: a letter that is not in PIECES counts as a pawn
countPieceDefaultPawn(c, g, i) ==
    LET e           == moverElo(g, i)
        dotLocation == IndexOf(g.moves[i + 1], ".")
        piece       == CharAt(g.moves[i + 1], dotLocation + 1)
        name        == IF piece \in DOMAIN PIECES THEN PIECES[piece] ELSE "pawn"
    IN  IF dotLocation # -1
        THEN LET c1 == countAt(c, name, i)
             IN  IF ~isNaN(e)
                 THEN countAt(c1, name \o eloSuffix(e), i)
                 ELSE c1
        ELSE c

\* the piece part of the loop body of processGame
countPiece(c, g, i) ==
    LET e           == moverElo(g, i)
        dotLocation == IndexOf(g.moves[i + 1], ".")
        piece       == CharAt(g.moves[i + 1], dotLocation + 1)
    IN  IF dotLocation # -1 /\ piece \in DOMAIN PIECES
        THEN LET c1 == countAt(c, PIECES[piece], i)
             IN  IF ~isNaN(e)
                 THEN countAt(c1, PIECES[piece] \o eloSuffix(e), i)
                 ELSE c1
        ELSE c

\* one iteration of the loop of processGame
processMove(c, g, i) ==
    countPiece(countWhere(countAt(c, "total", i), g, i), g, i)

RECURSIVE processMoves(_, _, _)
processMoves(c, g, n) ==
    IF n = 0 THEN c ELSE processMove(processMoves(c, g, n - 1), g, n - 1)

\* processGame(game): the counts after the loop over game.moves
processGame(c, g) == processMoves(c, g, Len(g.moves))

\* the names processGame hands to this.counts.get for move i of game g
LookedUp(g, i) ==
    LET e           == moverElo(g, i)
        rc          == getMoveRC(g.moves[i + 1])
        where       == IF rc = "null" THEN "castle" ELSE rc
        dotLocation == IndexOf(g.moves[i + 1], ".")
        piece       == CharAt(g.moves[i + 1], dotLocation + 1)
    IN  {"total"} \cup
        (IF ~isNaN(e)
         THEN {"total" \o eloSuffix(e), "pos_" \o where,
               "pos_" \o where \o eloSuffix(e)}
         ELSE {}) \cup
        (IF dotLocation # -1 /\ piece \in DOMAIN PIECES
         THEN {PIECES[piece]} \cup
              (IF ~isNaN(e) THEN {PIECES[piece] \o eloSuffix(e)} ELSE {})
         ELSE {})

(***************************************************************************)
(* Inputs of Spec: game records handed to processGame.                     *)
(***************************************************************************)
TokWe4   == <<"W", "1", ".", "e", "4">>            \* pawn to e4, white
TokBNf6  == <<"B", "1", ".", "N", "f", "6", "+">>  \* knight to f6, check
TokWOO   == <<"W", "2", ".", "O", "-", "O">>       \* castling
TokBnf6  == <<"B", "3", ".", "n", "f", "6">>       \* letter not in PIECES
Toke4    == <<"e", "4">>                           \* no mover, no '.'
TokWf4   == <<"W", "1", ".", "f", "4">>            \* pawn to f4, white

Tokens == {TokWe4, TokBNf6, TokWOO, TokBnf6, Toke4}

Ratings == {NaN, 1200, 2000}

RECURSIVE SeqsUpTo(_, _)
SeqsUpTo(S, n) ==
    IF n = 0 THEN {<<>>}
    ELSE LET shorter == SeqsUpTo(S, n - 1)
         IN  shorter \cup
             {Append(s, x) : s \in {t \in shorter : Len(t) = n - 1}, x \in S}

GameOf(w, b, ms) ==
    [index |-> 0, date |-> "none", result |-> "none", welo |-> w, belo |-> b,
     len |-> Len(ms), moves |-> ms, origin |-> "none"]

NoGame == GameOf(NaN, NaN, <<>>)

Games ==
    {GameOf(w, b, ms) : w \in Ratings, b \in Ratings,
                        ms \in SeqsUpTo(Tokens, MaxMoves)}

\* whether the piece letter of a token is found in PIECES
HasPiece(move) ==
    /\ IndexOf(move, ".") # -1
    /\ CharAt(move, IndexOf(move, ".") + 1) \in DOMAIN PIECES

\* noPiece after game g
NoPieceAfter(np, g) ==
    LET n == IF Len(np) > Len(g.moves) THEN Len(np) ELSE Len(g.moves)
    IN  [k \in 1..n |->
            (IF k <= Len(np) THEN np[k] ELSE 0) +
            (IF k <= Len(g.moves) /\ ~HasPiece(g.moves[k]) THEN 1 ELSE 0)]

(***************************************************************************)
(* parseInt and number formatting, on strings of characters.               *)
(***************************************************************************)
DigitVal ==
    ("0" :> 0) @@ ("1" :> 1) @@ ("2" :> 2) @@ ("3" :> 3) @@ ("4" :> 4) @@
    ("5" :> 5) @@ ("6" :> 6) @@ ("7" :> 7) @@ ("8" :> 8) @@ ("9" :> 9)

RECURSIVE ParseDigits(_, _, _)
ParseDigits(s, k, acc) ==
    IF k < Len(s) /\ s[k + 1] \in DOMAIN DigitVal
    THEN ParseDigits(s, k + 1, 10 * acc + DigitVal[s[k + 1]])
    ELSE acc

\* parseInt(s): the leading digits of s, NaN when s does not start with one
parseInt(s) ==
    IF CharAt(s, 0) \in DOMAIN DigitVal THEN ParseDigits(s, 0, 0) ELSE NaN

DigitChars == <<"0", "1", "2", "3", "4", "5", "6", "7", "8", "9">>

\* `${n}` for an integer n >= 0
RECURSIVE ToChars(_)
ToChars(n) ==
    IF n < 10 THEN <<DigitChars[n + 1]>>
    ELSE Append(ToChars(n \div 10), DigitChars[(n % 10) + 1])

\* s.substr(from, n)
Substr(s, from, n) ==
    [k \in 1..(IF Len(s) - from < n THEN (IF Len(s) > from THEN Len(s) - from ELSE 0) ELSE n)
        |-> s[from + k]]

(***************************************************************************)
(* Lines of a rated-format (lichess) file.  A line is given by what the    *)
(* patterns of the reader see in it: a tag line by its tag and the groups  *)
(* its pattern captures, a movetext line by its moves in order, each with  *)
(* its number (none for a black move that directly follows white's), its   *)
(* dots, its notation and whether " {" follows it.                         *)
(***************************************************************************)
TagLine(tag, groups) == [tag |-> tag, groups |-> groups, items |-> <<>>]

TextLine(items) == [tag |-> "Text", groups |-> <<>>, items |-> items]

MoveItem(num, dots, san, brace) ==
    [num |-> num, dots |-> dots, san |-> san, brace |-> brace]

\* DATE_PATTERN.exec(line) !== null
DATE_PATTERN(line) == line.tag = "Date"

\* ELO_PATTERN.exec(line) !== null, for [WhiteElo "<digits>"] and [BlackElo "<digits>"]
ELO_PATTERN(line) == line.tag \in {"WhiteElo", "BlackElo"}

\* RESULT_PATTERN.exec(line) !== null
RESULT_PATTERN(line) == line.tag = "Result"

\* MOVE_1_PATTERN.exec(line) !== null: the line starts with <digits>. <notation>
MOVE_1_PATTERN(line) ==
    /\ line.tag = "Text"
    /\ Len(line.items) >= 1
    /\ Len(line.items[1].num) >= 1
    /\ line.items[1].dots = "."

\* MOVE_PATTERN matches at a move: <digits>(.|...) <notation> {
MOVE_PATTERN(item) ==
    Len(item.num) >= 1 /\ item.dots \in {".", "..."} /\ item.brace

RECURSIVE lichessMovesFrom(_, _)
lichessMovesFrom(items, k) ==
    IF k > Len(items) THEN <<>>
    ELSE IF MOVE_PATTERN(items[k])
         THEN <<(<<IF items[k].dots = "." THEN "W" ELSE "B">>
                 \o ToChars(parseInt(items[k].num)) \o <<".">> \o items[k].san)>>
              \o lichessMovesFrom(items, k + 1)
         ELSE lichessMovesFrom(items, k + 1)

\* lichessMovesParse(line)
lichessMovesParse(line) == lichessMovesFrom(line.items, 1)

(***************************************************************************)
(* The state of the readers and of the callback chain.                     *)
(*                                                                         *)
(* readline splits each chunk of the input stream into lines and emits     *)
(* 'line' for each of them in a loop: rd[r].avail counts the lines split   *)
(* so far and rd[r].pos those handed to the handler.  close() marks the    *)
(* interface closed and emits 'close' at once, and a second close() does   *)
(* nothing; the lines of the chunk being emitted are still emitted after   *)
(* it, and no further chunk is read.                                       *)
(***************************************************************************)
Readers == {"pro", "lichess"}

\* null, for the date and for the result of the rated reader (a match is
\* never empty)
NullDate == <<>>
NullResult == <<>>

\* the closure state of a reader that was not started
Unstarted(lines) ==
    [status |-> "unstarted", lines |-> lines, maxQuantity |-> 0,
     closeCallback |-> "none", pos |-> 0, avail |-> 0,
     count |-> 0,
     index |-> 0, date |-> NullDate, result |-> NullResult,
     welo |-> NaN, belo |-> NaN, moves |-> <<>>]

\* forEachProGame / forEachLichessGame up to the registration of the handlers
Started(lines, maxQuantity, closeCallback) ==
    [Unstarted(lines) EXCEPT !.status = "open", !.maxQuantity = maxQuantity,
                             !.closeCallback = closeCallback]

World ==
    [counts |-> counts, totalGamesCounted |-> totalGamesCounted, game |-> game,
     noPiece |-> noPiece, rd |-> rd, log |-> log, dataJs |-> dataJs]

Install(w) ==
    /\ counts' = w.counts
    /\ totalGamesCounted' = w.totalGamesCounted
    /\ game' = w.game
    /\ noPiece' = w.noPiece
    /\ rd' = w.rd
    /\ log' = w.log
    /\ dataJs' = w.dataJs

Event(ev, by) == [ev |-> ev, by |-> by]

\* (obj) => this.processGame(obj), the callback both readers are given
onGame(w, r, g) ==
    [w EXCEPT !.log = Append(@, Event("game", r)),
              !.counts = processGame(@, g),
              !.totalGamesCounted = @ + 1,
              !.game = g,
              !.noPiece = NoPieceAfter(@, g)]

\* getJson(): the table as the blob
getJson(c) == [eventsByMove |-> c]

\* the completion callback a reader was given: that of a caller that only
\* takes note ("note"), or those of the chain at the bottom of the file:
\* the first starts the rated reader, the second writes data.js
closeCallback(w, r) ==
    LET w1 == [w EXCEPT !.log = Append(@, Event("done", r))]
    IN  CASE w.rd[r].closeCallback = "startLichess" ->
               [w1 EXCEPT !.log = Append(@, Event("start", "lichess")),
                          !.rd["lichess"] =
                              Started(@.lines, QUANTITY, "writeFile")]
          [] w.rd[r].closeCallback = "writeFile" ->
               [w1 EXCEPT !.log = Append(@, Event("write", r)),
                          !.dataJs = <<getJson(w1.counts)>>]
          [] OTHER -> w1

\* lineReader.close()
close(w, r) ==
    IF w.rd[r].status = "open"
    THEN closeCallback([w EXCEPT !.rd[r].status = "closed"], r)
    ELSE w

(***************************************************************************)
(* forEachProGame: the 'line' handler.  A line is the sequence of its      *)
(* whitespace-separated items (none for an empty line), each a string of   *)
(* characters.  The lines tried hold the six metadata items.               *)
(***************************************************************************)
RECURSIVE movesAfterPound(_, _, _)
movesAfterPound(lineItems, k, foundPound) ==
    IF k > Len(lineItems) THEN <<>>
    ELSE IF lineItems[k] = <<"#", "#", "#">>
         THEN movesAfterPound(lineItems, k + 1, TRUE)
         ELSE IF foundPound
              THEN <<lineItems[k]>> \o movesAfterPound(lineItems, k + 1, TRUE)
              ELSE movesAfterPound(lineItems, k + 1, FALSE)

proGame(lineItems) ==
    [index  |-> parseInt(lineItems[1]),
     date   |-> <<Substr(lineItems[2], 0, 4), Substr(lineItems[2], 5, 2),
                  Substr(lineItems[2], 8, 2)>>,
     result |-> lineItems[3],
     welo   |-> parseInt(lineItems[4]),
     belo   |-> parseInt(lineItems[5]),
     len    |-> parseInt(lineItems[6]),
     moves  |-> movesAfterPound(lineItems, 1, FALSE),
     origin |-> "pro"]

\* whether the handler skips the line: empty, or starting with #
proSkipped(lineItems) == Len(lineItems) = 0 \/ CharAt(lineItems[1], 0) = "#"

proOnLine(w, lineItems) ==
    IF proSkipped(lineItems) THEN w
    ELSE LET w1 == onGame(w, "pro", proGame(lineItems))
             w2 == [w1 EXCEPT !.rd["pro"].count = @ + 1]
         IN  IF w2.rd["pro"].count >= w2.rd["pro"].maxQuantity
             THEN close(w2, "pro")
             ELSE w2

(***************************************************************************)
(* forEachLichessGame: the 'line' handler.                                 *)
(***************************************************************************)
lichessGame(s) ==
    [index |-> s.index, date |-> s.date, result |-> s.result,
     welo |-> s.welo, belo |-> s.belo, len |-> Len(s.moves),
     moves |-> s.moves, origin |-> "lichess"]

\* the three metadata tests of the handler
lichessMeta(s, line) ==
    LET s1 == IF DATE_PATTERN(line)
              THEN [s EXCEPT !.date = <<parseInt(line.groups[1]),
                                        parseInt(line.groups[2]),
                                        parseInt(line.groups[3])>>]
              ELSE s
        s2 == IF ELO_PATTERN(line)
              THEN IF line.tag = "WhiteElo"
                   THEN [s1 EXCEPT !.welo = parseInt(line.groups[1])]
                   ELSE [s1 EXCEPT !.belo = parseInt(line.groups[1])]
              ELSE s1
    IN  IF RESULT_PATTERN(line)
        THEN [s2 EXCEPT !.result = line.groups[1]]
        ELSE s2

\* the reset at the end of the movetext branch
lichessClear(s) ==
    [s EXCEPT !.date = NullDate, !.result = NullResult, !.welo = NaN,
              !.belo = NaN, !.moves = <<>>]

\* lichessEmits with a fault: the test of the result is missing
lichessEmitsNoResult(s) == s.date # NullDate /\ Len(s.moves) >= 2

\* whether the movetext branch calls the callback
lichessEmits(s) ==
    s.date # NullDate /\ s.result # NullResult /\ Len(s.moves) >= 2

lichessOnLine(w, line) ==
    LET w1 == [w EXCEPT !.rd["lichess"] = lichessMeta(@, line)]
    IN  IF MOVE_1_PATTERN(line)
        THEN LET w2 == [w1 EXCEPT !.rd["lichess"].moves = lichessMovesParse(line)]
                 w3 == IF lichessEmits(w2.rd["lichess"])
                       THEN LET w4 == onGame(w2, "lichess", lichessGame(w2.rd["lichess"]))
                                w5 == [w4 EXCEPT !.rd["lichess"].index = @ + 1]
                            IN  IF w5.rd["lichess"].index >= w5.rd["lichess"].maxQuantity
                                THEN close(w5, "lichess")
                                ELSE w5
                       ELSE w2
             IN  [w3 EXCEPT !.rd["lichess"] = lichessClear(@)]
        ELSE w1

(***************************************************************************)
(* Input files.                                                            *)
(***************************************************************************)
ProBlank == <<>>

ProComment == << <<"#">>, <<"x">> >>

\* 1 2000.03.14 1-0 1200 None 2 ### W1.e4 B1.Nf6+
ProGameA ==
    << <<"1">>, <<"2", "0", "0", "0", ".", "0", "3", ".", "1", "4">>,
       <<"1", "-", "0">>, <<"1", "2", "0", "0">>, <<"N", "o", "n", "e">>,
       <<"2">>, <<"#", "#", "#">>, TokWe4, TokBNf6 >>

\* 2 2001.01.01 0-1 None 2000 1 ### W2.O-O
ProGameB ==
    << <<"2">>, <<"2", "0", "0", "1", ".", "0", "1", ".", "0", "1">>,
       <<"0", "-", "1">>, <<"N", "o", "n", "e">>, <<"2", "0", "0", "0">>,
       <<"1">>, <<"#", "#", "#">>, TokWOO >>

ProLines == {ProBlank, ProComment, ProGameA, ProGameB}

LDate == TagLine("Date", << <<"2", "0", "2", "1">>, <<"0", "9">>, <<"0", "1">> >>)
LWhiteElo == TagLine("WhiteElo", << <<"1", "2", "0", "0">> >>)
LBlackElo == TagLine("BlackElo", << <<"2", "0", "0", "0">> >>)
LResult == TagLine("Result", << <<"1", "-", "0">> >>)
LEvent == TagLine("Event", <<>>)

\* 1. e4 { c } 1... e5 { c }
LTwoMoves ==
    TextLine(<< MoveItem(<<"1">>, ".", <<"e", "4">>, TRUE),
                MoveItem(<<"1">>, "...", <<"e", "5">>, TRUE) >>)

\* 1. e4 { c } e5
LOneMove ==
    TextLine(<< MoveItem(<<"1">>, ".", <<"e", "4">>, TRUE),
                MoveItem(<<>>, "", <<"e", "5">>, FALSE) >>)

\* 1. e4 {comment} 1... e5 2. Nf3 Nc6
LFourMoves ==
    TextLine(<< MoveItem(<<"1">>, ".", <<"e", "4">>, TRUE),
                MoveItem(<<"1">>, "...", <<"e", "5">>, FALSE),
                MoveItem(<<"2">>, ".", <<"N", "f", "3">>, FALSE),
                MoveItem(<<>>, "", <<"N", "c", "6">>, FALSE) >>)

\* 1. e4 { c } 1... e5 2. Nf3 { c } 2... Nc6 { c }
LGappedMoves ==
    TextLine(<< MoveItem(<<"1">>, ".", <<"e", "4">>, TRUE),
                MoveItem(<<"1">>, "...", <<"e", "5">>, FALSE),
                MoveItem(<<"2">>, ".", <<"N", "f", "3">>, TRUE),
                MoveItem(<<"2">>, "...", <<"N", "c", "6">>, TRUE) >>)

\* the groups of lines the rated files tried are made of
LichessBlocks ==
    { <<LDate, LWhiteElo, LBlackElo, LResult, LTwoMoves>>,  \* a whole game
      <<LDate, LWhiteElo, LBlackElo, LResult, LFourMoves>>, \* bare moves
      <<LDate, LWhiteElo, LBlackElo, LResult, LGappedMoves>>, \* one bare move
      <<LDate, LWhiteElo, LResult>>,        \* metadata, no movetext
      <<LEvent, LDate, LResult, LTwoMoves>>, \* a game without ratings
      <<LTwoMoves>>,                        \* movetext, no metadata
      <<LDate, LResult, LOneMove>>,         \* fewer than two moves
      <<LDate, LTwoMoves>>,                 \* no result
      <<LResult, LTwoMoves>>,               \* no date
      <<LEvent>> }

ProBlocks == {<<l>> : l \in ProLines}

RECURSIVE Flatten(_)
Flatten(ss) == IF Len(ss) = 0 THEN <<>> ELSE Head(ss) \o Flatten(Tail(ss))

\* the files made of at most MaxBlocks blocks
FilesOf(blocks) == {Flatten(bs) : bs \in SeqsUpTo(blocks, MaxBlocks)}

ProFiles == FilesOf(ProBlocks)

LichessFiles == FilesOf(LichessBlocks)

(***************************************************************************)
(* Spec: the aggregator fed arbitrary game records.                        *)
(***************************************************************************)
\* no call was made on the Counts object
NoCall == [op |-> "none", n |-> 0, times |-> 0, low |-> 0, high |-> 0,
           aggregation |-> "none", was |-> <<>>]

\* no Counts object is taken on its own
InitNoCounts ==
    /\ series = [class |-> "none", data |-> <<>>, aggregated |-> FALSE]
    /\ call = NoCall
    /\ got = 0
    /\ points = <<>>

\* getMoveRC was not called on its own
NoCodec == [parts |-> [kind |-> "none"], move |-> <<>>, rowcol |-> "none"]

\* no page is open
NoApp ==
    [graphType |-> "none", dataSource |-> "none", eloSuffix |-> "",
     keyFilter |-> {}, aggregation |-> "none", startTime |-> 0, endTime |-> 0,
     currentTime |-> 0, data |-> <<>>]

InitNoPage ==
    /\ DATA = [eventsByMove |-> <<>>]
    /\ app = NoApp
    /\ dom = [boxes |-> <<>>, checked |-> {}, disabled |-> {}]
    /\ thrown = FALSE

InitAggregator ==
    /\ counts = NewCounts
    /\ totalGamesCounted = 0
    /\ game = NoGame
    /\ noPiece = <<>>
    /\ elo = NaN
    /\ suffix = "none"
    /\ log = <<>>
    /\ dataJs = <<>>
    /\ codec = NoCodec

Init ==
    /\ InitAggregator
    /\ InitNoCounts
    /\ InitNoPage
    /\ rd = [r \in Readers |-> Unstarted(<<>>)]

ProcessGame(g) ==
    /\ totalGamesCounted < MaxGames
    /\ counts' = processGame(counts, g)
    /\ totalGamesCounted' = totalGamesCounted + 1
    /\ game' = g
    /\ noPiece' = NoPieceAfter(noPiece, g)
    /\ UNCHANGED <<elo, suffix, rd, log, dataJs, countsVars, appVars, codec>>

Next == \E g \in Games : ProcessGame(g)

Spec == Init /\ [][Next]_vars

(***************************************************************************)
(* SpecElo: eloSuffix applied to the ratings EloLo .. EloHi and to NaN.    *)
(***************************************************************************)
EloSuffixCall(e) ==
    /\ elo' = e
    /\ suffix' = eloSuffix(e)
    /\ UNCHANGED <<counts, totalGamesCounted, game, noPiece, rd, log, dataJs, countsVars, appVars, codec>>

NextElo == \E e \in (EloLo..EloHi) \cup {NaN} : EloSuffixCall(e)

SpecElo == Init /\ [][NextElo]_vars

(***************************************************************************)
(* SpecRC: getMoveRC applied to tokens made of a mover-ply prefix, a body, *)
(* a cell, a promotion and trailing glyphs, and to arbitrary notations     *)
(* with or without prefix.                                                 *)
(***************************************************************************)
RCParts ==
    [kind      : {"cell"},
     prefix    : {<<"W", "1", ".">>, <<"B", "1", "2", ".">>},
     body      : {<<>>, <<"N">>, <<"N", "x">>, <<"e", "x">>, <<"R", "1">>},
     cell      : {<<"a", "1">>, <<"e", "4">>, <<"h", "8">>, <<"e", "8">>},
     promotion : {<<>>, <<"=", "Q">>, <<"=", "N">>},
     glyphs    : SeqsUpTo({"+", "#", "?", "!"}, MaxGlyphs)] \cup
    [kind   : {"raw"},
     prefix : {<<>>, <<"W", "1", ".">>, <<"B", "1", "2", ".">>},
     raw    : SeqsUpTo({"e", "4", "=", "Q", "+", "O", "-", "i", "9"}, MaxRaw) \cup
              {<<"O", "-", "O">>, <<"O", "-", "O", "-", "O">>,
               <<"O", "-", "O", "+">>}]

\* the token the parts make
RCToken(parts) ==
    IF parts.kind = "cell"
    THEN parts.prefix \o parts.body \o parts.cell \o parts.promotion \o parts.glyphs
    ELSE parts.prefix \o parts.raw

\* the token is made and waits for the call
InitRC ==
    /\ counts = NewCounts
    /\ totalGamesCounted = 0
    /\ game = NoGame
    /\ noPiece = <<>>
    /\ elo = NaN
    /\ suffix = "none"
    /\ log = <<>>
    /\ dataJs = <<>>
    /\ rd = [r \in Readers |-> Unstarted(<<>>)]
    /\ InitNoCounts
    /\ InitNoPage
    /\ \E parts \in RCParts :
          codec = [parts |-> parts, move |-> RCToken(parts), rowcol |-> "none"]

\* this.getMoveRC(move)
GetMoveRC ==
    /\ codec.parts.kind # "none"
    /\ codec.rowcol = "none"
    /\ codec' = [codec EXCEPT !.rowcol = getMoveRC(codec.move)]
    /\ UNCHANGED <<counts, totalGamesCounted, game, noPiece, elo, suffix, rd, log, dataJs, countsVars, appVars>>

NextRC == GetMoveRC

SpecRC == InitRC /\ [][NextRC]_vars

(***************************************************************************)
(* SpecKeys: processGame applied to a game record whose only move is one   *)
(* of the tokens above, the empty token included, with rated and unrated   *)
(* players.                                                                *)
(***************************************************************************)
ProcessToken(w, b) ==
    /\ codec.parts.kind # "none"
    /\ totalGamesCounted = 0
    /\ ProcessGame(GameOf(w, b, <<codec.move>>))

NextKeys == \E w \in Ratings, b \in Ratings : ProcessToken(w, b)

SpecKeys == InitRC /\ [][NextKeys]_vars

(***************************************************************************)
(* The events of the readers.                                              *)
(***************************************************************************)
\* no reader is in the middle of emitting the lines of a chunk
Idle == \A q \in Readers : rd[q].pos = rd[q].avail

\* the input stream of reader r hands readline its next chunk
Data(r) ==
    /\ rd[r].status = "open"
    /\ Idle
    /\ rd[r].avail < Len(rd[r].lines)
    /\ \E n \in (rd[r].avail + 1)..Len(rd[r].lines) :
          rd' = [rd EXCEPT ![r].avail = n]
    /\ UNCHANGED <<counts, totalGamesCounted, game, noPiece, elo, suffix, log, dataJs, countsVars, appVars, codec>>

\* the input stream of reader r ends: readline closes the interface
End(r) ==
    /\ rd[r].status = "open"
    /\ Idle
    /\ rd[r].avail = Len(rd[r].lines)
    /\ Install(close(World, r))
    /\ UNCHANGED <<elo, suffix, countsVars, appVars, codec>>

\* 'line' of the pro reader
ProLine ==
    /\ rd["pro"].pos < rd["pro"].avail
    /\ Install(proOnLine([World EXCEPT !.rd["pro"].pos = @ + 1],
                         rd["pro"].lines[rd["pro"].pos + 1]))
    /\ UNCHANGED <<elo, suffix, countsVars, appVars, codec>>

\* 'line' of the rated reader
LichessLine ==
    /\ rd["lichess"].pos < rd["lichess"].avail
    /\ Install(lichessOnLine([World EXCEPT !.rd["lichess"].pos = @ + 1],
                             rd["lichess"].lines[rd["lichess"].pos + 1]))
    /\ UNCHANGED <<elo, suffix, countsVars, appVars, codec>>

NextRead ==
    \/ \E r \in Readers : Data(r)
    \/ \E r \in Readers : End(r)
    \/ ProLine
    \/ LichessLine

(***************************************************************************)
(* SpecReader: one reader run on a file with a cap, through                *)
(* processProData or processLichessData, by a caller whose completion      *)
(* callback only takes note.                                               *)
(***************************************************************************)
InitReader ==
    /\ InitAggregator
    /\ InitNoCounts
    /\ InitNoPage
    /\ \E cap \in 0..MaxCap :
          \/ \E f \in ProFiles :
                rd = [r \in Readers |->
                        IF r = "pro" THEN Started(f, cap, "note")
                        ELSE Unstarted(<<>>)]
          \/ \E f \in LichessFiles :
                rd = [r \in Readers |->
                        IF r = "lichess" THEN Started(f, cap, "note")
                        ELSE Unstarted(<<>>)]

SpecReader == InitReader /\ [][NextRead]_vars

(***************************************************************************)
(* SpecMain: the chain at the bottom of the file: processProData, whose    *)
(* completion starts processLichessData, whose completion writes data.js.  *)
(***************************************************************************)
InitMain ==
    /\ InitAggregator
    /\ InitNoCounts
    /\ InitNoPage
    /\ \E pf \in ProFiles, lf \in LichessFiles :
          rd = [r \in Readers |->
                  IF r = "pro" THEN Started(pf, QUANTITY, "startLichess")
                  ELSE Unstarted(lf)]

SpecMain == InitMain /\ [][NextRead]_vars

(***************************************************************************)
(* The Counts class of the front end (src/visualization.js), on the data   *)
(* array.  get is the same code in both classes.                           *)
(***************************************************************************)
\* Counts.count(n, times) of the front end
countTimes(data, n, times) ==
    LET padded == IF n > Len(data) - 1
                  THEN data \o [k \in 1..(n + 1 - Len(data)) |-> 0]
                  ELSE data
    IN  [padded EXCEPT ![n + 1] = @ + times]

\* get with a fault: an index past the end reads the last entry
getClamped(data, n) ==
    IF n <= 0 \/ Len(data) = 0 THEN 0
    ELSE IF n >= Len(data) THEN data[Len(data)]
    ELSE data[n + 1]

\* Counts.get(n)
get(data, n) ==
    IF n <= 0 \/ n >= Len(data) THEN 0 ELSE data[n + 1]

\* range(lo, hi)
range(lo, hi) == [k \in 1..(hi - lo) |-> lo + k - 1]

\* Counts.getDomain(low, high)
getDomain(data, low, high) ==
    LET xs == range(low, high)
    IN  [k \in DOMAIN xs |-> [x |-> xs[k], y |-> get(data, xs[k])]]

\* the loop of the "aggregated" branch of aggregateBy, from index i on
RECURSIVE aggregatedFrom(_, _)
aggregatedFrom(data, i) ==
    IF i < Len(data) - 1
    THEN <<data[i + 1] + data[i + 2]>> \o aggregatedFrom(data, i + 2)
    ELSE <<>>

\* data.filter((v, i) => i % 2 === parity)
RECURSIVE filterParity(_, _, _)
filterParity(data, i, parity) ==
    IF i >= Len(data) THEN <<>>
    ELSE IF i % 2 = parity
         THEN <<data[i + 1]>> \o filterParity(data, i + 1, parity)
         ELSE filterParity(data, i + 1, parity)

\* aggregateBy with a fault: the two colours are exchanged
aggregateBySwapped(data, aggregation) ==
    IF aggregation = "aggregated" THEN aggregatedFrom(data, 0)
    ELSE IF aggregation = "white" THEN filterParity(data, 0, 1)
    ELSE IF aggregation = "black" THEN filterParity(data, 0, 0)
    ELSE data

\* Counts.aggregateBy(aggregation): the data after the call
aggregateBy(data, aggregation) ==
    IF aggregation = "aggregated" THEN aggregatedFrom(data, 0)
    ELSE IF aggregation = "white" THEN filterParity(data, 0, 0)
    ELSE IF aggregation = "black" THEN filterParity(data, 0, 1)
    ELSE data

Aggregations == {"separate", "aggregated", "white", "black"}

(***************************************************************************)
(* SpecCounts: one Counts object and the calls of its methods.  An object  *)
(* of the ETL starts empty and has count(n) and get(n); an object of the   *)
(* front end starts from a copy of a series of the blob and has            *)
(* count(n, times), get(n), getDomain(low, high) and aggregateBy; as in    *)
(* findData and sumGeneral, the calls of count come first and aggregateBy  *)
(* is called once.                                                         *)
(***************************************************************************)
BlobSeries == SeqsUpTo(0..MaxVal, MaxLen)

InitCounts ==
    /\ InitAggregator
    /\ InitNoPage
    /\ rd = [r \in Readers |-> Unstarted(<<>>)]
    /\ \/ series = [class |-> "etl", data |-> <<>>, aggregated |-> FALSE]
       \/ \E d \in BlobSeries :
             series = [class |-> "front", data |-> d, aggregated |-> FALSE]
    /\ call = NoCall
    /\ got = 0
    /\ points = <<>>

\* count(n) of the ETL
Count(n) ==
    /\ series.class = "etl"
    /\ count(series.data, n)[n + 1] <= MaxVal
    /\ series' = [series EXCEPT !.data = count(@, n)]
    /\ call' = [NoCall EXCEPT !.op = "count", !.n = n, !.times = 1,
                              !.was = series.data]
    /\ got' = 0 /\ points' = <<>>
    /\ UNCHANGED <<etlVars, appVars>>

\* count(n, times) of the front end
CountTimes(n, times) ==
    /\ series.class = "front" /\ ~series.aggregated
    /\ countTimes(series.data, n, times)[n + 1] <= MaxVal
    /\ series' = [series EXCEPT !.data = countTimes(@, n, times)]
    /\ call' = [NoCall EXCEPT !.op = "count", !.n = n, !.times = times,
                              !.was = series.data]
    /\ got' = 0 /\ points' = <<>>
    /\ UNCHANGED <<etlVars, appVars>>

Get(n) ==
    /\ series.class \in {"etl", "front"}
    /\ got' = get(series.data, n)
    /\ call' = [NoCall EXCEPT !.op = "get", !.n = n, !.was = series.data]
    /\ points' = <<>>
    /\ UNCHANGED <<series, etlVars, appVars>>

GetDomain(low, high) ==
    /\ series.class = "front"
    /\ points' = getDomain(series.data, low, high)
    /\ call' = [NoCall EXCEPT !.op = "getDomain", !.low = low, !.high = high,
                              !.was = series.data]
    /\ got' = 0
    /\ UNCHANGED <<series, etlVars, appVars>>

AggregateBy(aggregation) ==
    /\ series.class = "front" /\ ~series.aggregated
    /\ series' = [series EXCEPT !.data = aggregateBy(@, aggregation),
                                !.aggregated = TRUE]
    /\ call' = [NoCall EXCEPT !.op = "aggregateBy", !.aggregation = aggregation,
                              !.was = series.data]
    /\ got' = 0 /\ points' = <<>>
    /\ UNCHANGED <<etlVars, appVars>>

NextCounts ==
    \/ \E n \in 0..MaxLen : Count(n)
    \/ \E n \in 0..MaxLen, times \in 1..MaxVal : CountTimes(n, times)
    \/ \E n \in (-2)..(MaxLen + 2) : Get(n)
    \/ \E low, high \in (-1)..(MaxLen + 2) : GetDomain(low, high)
    \/ \E aggregation \in Aggregations : AggregateBy(aggregation)

SpecCounts == InitCounts /\ [][NextCounts]_vars

(***************************************************************************)
(* The blob as the page loads it: DATA.eventsByMove is the array of the    *)
(* {name, data} objects of the table, in the order the constructor of the  *)
(* DataAggregator added them.                                              *)
(***************************************************************************)
\* the values of PIECES in the order `for (let k in PIECES)` first meets them
PieceOrder == <<"pawn", "knight", "rook", "castling", "bishop", "king", "queen">>

\* the names the constructor adds for one suffix, in order
namesFor(s) ==
    <<"total" \o s>> \o
    [k \in 1..Len(PieceOrder) |-> PieceOrder[k] \o s] \o
    [i \in 1..64 |-> "pos_" \o getRowColName((i - 1) \div 8, (i - 1) % 8) \o s] \o
    <<"pos_castle" \o s>>

\* the keys of this.counts in insertion order
eventNames ==
    namesFor(ELO_SUFFIXES[1]) \o namesFor(ELO_SUFFIXES[2]) \o
    namesFor(ELO_SUFFIXES[3]) \o namesFor(ELO_SUFFIXES[4])

\* const DATA = <the blob getJson() returned>
loadData(blob) ==
    [eventsByMove |->
        [k \in 1..Len(eventNames) |->
            [name |-> eventNames[k], data |-> blob.eventsByMove[eventNames[k]]]]]

(***************************************************************************)
(* The characters of a key, for the regular expressions of sumRow and      *)
(* sumCol.                                                                 *)
(***************************************************************************)
SuffixChars ==
    ("" :> <<>>) @@ ("_low" :> <<"_", "l", "o", "w">>) @@
    ("_mid" :> <<"_", "m", "i", "d">>) @@ ("_hi" :> <<"_", "h", "i">>)

WordChars ==
    ("total" :> <<"t", "o", "t", "a", "l">>) @@
    ("pawn" :> <<"p", "a", "w", "n">>) @@
    ("knight" :> <<"k", "n", "i", "g", "h", "t">>) @@
    ("rook" :> <<"r", "o", "o", "k">>) @@
    ("castling" :> <<"c", "a", "s", "t", "l", "i", "n", "g">>) @@
    ("bishop" :> <<"b", "i", "s", "h", "o", "p">>) @@
    ("king" :> <<"k", "i", "n", "g">>) @@
    ("queen" :> <<"q", "u", "e", "e", "n">>) @@
    ("pos_castle" :> <<"p", "o", "s", "_", "c", "a", "s", "t", "l", "e">>)

Spelled ==
    {<<w \o s, WordChars[w] \o SuffixChars[s]>> :
        w \in DOMAIN WordChars, s \in DOMAIN SuffixChars} \cup
    {<<"pos_" \o FileChars[f] \o RankChars[r] \o s,
       <<"p", "o", "s", "_", FileChars[f], RankChars[r]>> \o SuffixChars[s]>> :
        f \in 1..8, r \in 1..8, s \in DOMAIN SuffixChars}

\* key -> its characters
spell ==
    [key \in {sp[1] : sp \in Spelled} |->
        (CHOOSE sp \in Spelled : sp[1] = key)[2]]

\* new RegExp(`^pos_[a-h]([1-8])${suffix}$`).exec(key): the group, or "null"
rowMatch(key, sfx) ==
    LET cs == spell[key]
        sx == SuffixChars[sfx]
    IN  IF /\ Len(cs) = 6 + Len(sx)
           /\ SubSeq(cs, 1, 4) = <<"p", "o", "s", "_">>
           /\ cs[5] \in {"a", "b", "c", "d", "e", "f", "g", "h"}
           /\ cs[6] \in {"1", "2", "3", "4", "5", "6", "7", "8"}
           /\ SubSeq(cs, 7, Len(cs)) = sx
        THEN cs[6] ELSE "null"

\* new RegExp(`^pos_([a-h])[1-8]${suffix}$`).exec(key): the group, or "null"
colMatch(key, sfx) ==
    LET cs == spell[key]
        sx == SuffixChars[sfx]
    IN  IF /\ Len(cs) = 6 + Len(sx)
           /\ SubSeq(cs, 1, 4) = <<"p", "o", "s", "_">>
           /\ cs[5] \in {"a", "b", "c", "d", "e", "f", "g", "h"}
           /\ cs[6] \in {"1", "2", "3", "4", "5", "6", "7", "8"}
           /\ SubSeq(cs, 7, Len(cs)) = sx
        THEN cs[5] ELSE "null"

(***************************************************************************)
(* findData, sumGeneral, sumRow, sumCol, processDataSources.  A Counts     *)
(* object is the record of its name and its data.                          *)
(***************************************************************************)
\* the result of a findData that threw
KeyNotFound == [name |-> "Error", data |-> <<>>]

\* findData(key, aggregation)
findData(D, key, aggregation) ==
    LET hits == {k \in DOMAIN D.eventsByMove : D.eventsByMove[k].name = key}
    IN  IF hits = {} THEN KeyNotFound
        ELSE LET first == CHOOSE k \in hits : \A j \in hits : k <= j
             IN  [name |-> key,
                  data |-> aggregateBy(D.eventsByMove[first].data, aggregation)]

\* data.forEach((n, idx) => result.count(idx, n)), from index idx on
RECURSIVE countAll(_, _, _)
countAll(result, data, idx) ==
    IF idx >= Len(data) THEN result
    ELSE countAll(countTimes(result, idx, data[idx + 1]), data, idx + 1)

\* the loop of sumGeneral over the data whose key the predicate accepts, in
\* the order of the array; ks holds the indices still to visit
RECURSIVE sumFrom(_, _, _)
sumFrom(D, ks, result) ==
    IF ks = {} THEN result
    ELSE LET k == CHOOSE i \in ks : \A j \in ks : i <= j
         IN  sumFrom(D, ks \ {k}, countAll(result, D.eventsByMove[k].data, 0))

\* sumGeneral(name, predicate, aggregation); the predicate is given by the
\* set of the keys it accepts
sumGeneral(D, name, accepted, aggregation) ==
    LET ks == {k \in DOMAIN D.eventsByMove : D.eventsByMove[k].name \in accepted}
    IN  [name |-> name,
         data |-> aggregateBy(sumFrom(D, ks, <<>>), aggregation)]

\* the keys of the blob
keysOf(D) == {D.eventsByMove[k].name : k \in DOMAIN D.eventsByMove}

\* sumCol with a fault: the tier suffix is left out of the pattern's test
sumColAnyTier(D, col, sfx, aggregation) ==
    sumGeneral(D, "col_" \o col,
               {key \in keysOf(D) : \E s \in DOMAIN SuffixChars : colMatch(key, s) = col},
               aggregation)

\* sumRow(row, suffix, aggregation)
sumRow(D, row, sfx, aggregation) ==
    sumGeneral(D, "row_" \o row,
               {key \in keysOf(D) : rowMatch(key, sfx) = row}, aggregation)

\* sumCol(col, suffix, aggregation)
sumCol(D, col, sfx, aggregation) ==
    sumGeneral(D, "col_" \o col,
               {key \in keysOf(D) : colMatch(key, sfx) = col}, aggregation)

\* rowColString with a fault: the ranks start at '0' instead of '1'
rowColStringFromZero(i) ==
    FileChars[(i \div 8) + 1] \o
    <<"0", "1", "2", "3", "4", "5", "6", "7">>[(i % 8) + 1]

\* rowColString(i)
rowColString(i) == FileChars[(i \div 8) + 1] \o RankChars[(i % 8) + 1]

\* processDataSources(suffix, aggregation)
processDataSources(D, sfx, aggregation) ==
    [pieceType |->
        << [name |-> "King",     data |-> findData(D, "king" \o sfx, aggregation)],
           [name |-> "Pawn",     data |-> findData(D, "pawn" \o sfx, aggregation)],
           [name |-> "Rook",     data |-> findData(D, "rook" \o sfx, aggregation)],
           [name |-> "Castling", data |-> findData(D, "castling" \o sfx, aggregation)],
           [name |-> "Queen",    data |-> findData(D, "queen" \o sfx, aggregation)],
           [name |-> "Bishop",   data |-> findData(D, "bishop" \o sfx, aggregation)],
           [name |-> "Knight",   data |-> findData(D, "knight" \o sfx, aggregation)] >>,
     rows |->
        [k \in 1..8 |->
            [name |-> RankChars[k],
             data |-> sumRow(D, RankChars[k], sfx, aggregation)]],
     columns |->
        [k \in 1..8 |->
            [name |-> FileChars[k],
             data |-> sumCol(D, FileChars[k], sfx, aggregation)]],
     destination |->
        [i \in 1..64 |->
            [name |-> rowColString(i - 1),
             data |-> findData(D, "pos_" \o rowColString(i - 1) \o sfx,
                               aggregation)]]]

(***************************************************************************)
(* The blob of SpecApp, and processDataSources tabulated on it: the table  *)
(* holds processDataSources(D, sfx, aggregation) for every tier and colour *)
(* mode, so that the handlers below apply the operator once per argument   *)
(* triple on this blob.                                                    *)
(***************************************************************************)
AppBlobs ==
    {getJson(processGame(NewCounts, GameOf(1200, 2000, <<TokWe4, TokBNf6>>)))}

Views ==
    [D \in {loadData(blob) : blob \in AppBlobs} |->
        [sfx \in Suffixes |->
            [aggregation \in Aggregations |->
                processDataSources(D, sfx, aggregation)]]]

\* this.data = processDataSources(suffix, aggregation)
derive(D, sfx, aggregation) ==
    IF D \in DOMAIN Views THEN Views[D][sfx][aggregation]
    ELSE processDataSources(D, sfx, aggregation)

(***************************************************************************)
(* The App object and the handlers registerEvents installs.  A handler     *)
(* maps the page (the App object and the checkboxes of #filters) to the    *)
(* page after it; what the redraw functions draw is not part of the state. *)
(***************************************************************************)
Page == [app |-> app, dom |-> dom, thrown |-> thrown]

\* whether redrawSummary throws: extractTimeSeriesData() keeps the items
\* whose name is in keyFilter and gives each as values the array
\* getDomain(startTime, endTime), which holds one pair per element of
\* range(startTime, endTime); for each of them d.values[this.currentTime] is
\* read and then its .y, which throws when the former is undefined
redrawSummaryThrows(w) ==
    LET items == w.app.data[w.app.dataSource]
    IN  /\ \E k \in DOMAIN items : items[k].name \in w.app.keyFilter
        /\ (w.app.currentTime + 1) \notin
               DOMAIN range(w.app.startTime, w.app.endTime)

\* redrawSummary(isNormalized, isLine)
redrawSummary(w) == [w EXCEPT !.thrown = redrawSummaryThrows(w)]

\* redrawTimeSeries(): the chart is drawn, then the summary
redrawTimeSeries(w) == redrawSummary(w)

\* updateCheckboxes()
updateCheckboxes(w) ==
    LET items == w.app.data[w.app.dataSource]
    IN  [w EXCEPT !.app.keyFilter = {},
                  !.dom = [boxes    |-> [k \in DOMAIN items |-> items[k].name],
                           checked  |-> {},
                           disabled |-> {}]]

\* new App()
newApp(D) ==
    redrawTimeSeries(updateCheckboxes(
        [app |-> [graphType   |-> "normalizedStacked",
                  dataSource  |-> "pieceType",
                  eloSuffix   |-> "",
                  keyFilter   |-> {},
                  aggregation |-> "separate",
                  startTime   |-> 0,
                  endTime     |-> 200,
                  currentTime |-> 10,
                  data        |-> derive(D, "", "separate")],
         dom |-> [boxes |-> <<>>, checked |-> {}, disabled |-> {}],
         thrown |-> FALSE]))

\* the names of the checkboxes of #filters
boxNames(w) == {w.dom.boxes[k] : k \in DOMAIN w.dom.boxes}

\* changeKeyFilter with a fault: no checkbox is ever disabled
changeKeyFilterNoLimit(w, keyName, checked) ==
    redrawTimeSeries(
        [w EXCEPT !.app.keyFilter = IF checked THEN @ \cup {keyName}
                                    ELSE @ \ {keyName},
                  !.dom.disabled = {}])

\* changeKeyFilter(keyName, checked)
changeKeyFilter(w, keyName, checked) ==
    LET kf == IF checked THEN w.app.keyFilter \cup {keyName}
              ELSE w.app.keyFilter \ {keyName}
    IN  redrawTimeSeries(
            [w EXCEPT !.app.keyFilter = kf,
                      !.dom.disabled = IF Cardinality(kf) = 10
                                       THEN @ \cup (boxNames(w) \ kf)
                                       ELSE {}])

\* changeGraphType(newValue)
changeGraphType(w, newValue) ==
    redrawTimeSeries([w EXCEPT !.app.graphType = newValue])

\* changeDataSource(newValue)
changeDataSource(w, newValue) ==
    redrawTimeSeries(updateCheckboxes([w EXCEPT !.app.dataSource = newValue]))

\* changeElos(newValue)
changeElos(w, D, newValue) ==
    redrawTimeSeries(
        [w EXCEPT !.app.eloSuffix = newValue,
                  !.app.data = derive(D, newValue, w.app.aggregation)])

\* changeColors with a fault: this.data is not derived again
changeColorsStale(w, D, newValue) ==
    redrawTimeSeries(
        [w EXCEPT !.app.aggregation = newValue,
                  !.app.endTime = IF newValue = "separate" THEN 200 ELSE 100])

\* changeColors(newValue)
changeColors(w, D, newValue) ==
    redrawTimeSeries(
        [w EXCEPT !.app.aggregation = newValue,
                  !.app.endTime = IF newValue = "separate" THEN 200 ELSE 100,
                  !.app.data = derive(D, w.app.eloSuffix, newValue)])

\* updateHeatmapSlider(time), of drawStacked and of drawLine
updateHeatmapSlider(w, time) ==
    redrawSummary([w EXCEPT !.app.currentTime = time])

\* updateHeatmapCursor(e), of drawStacked and of drawLine; x is
\* Math.round(xScale.invert(d3.pointer(e)[0])), and xMin and xMax are the
\* startTime and endTime of the chart as it was last drawn
updateHeatmapCursor(w, x) ==
    LET xMin    == w.app.startTime
        xMax    == w.app.endTime
        clamped == IF (IF x > xMin THEN x ELSE xMin) < xMax
                   THEN (IF x > xMin THEN x ELSE xMin) ELSE xMax
    IN  IF clamped # w.app.currentTime
        THEN updateHeatmapSlider(w, clamped)
        ELSE [w EXCEPT !.thrown = FALSE]

GraphTypes == {"normalizedStacked", "stacked", "line"}

DataSources == {"pieceType", "rows", "columns", "destination"}

(***************************************************************************)
(* The events of the page.                                                 *)
(***************************************************************************)
Show(w) ==
    /\ app' = w.app
    /\ dom' = w.dom
    /\ thrown' = w.thrown
    /\ UNCHANGED <<DATA, etlVars, countsVars>>

\* 'input' on #graph-type: the user selected another option
ChangeGraphType(v) ==
    /\ v # app.graphType
    /\ Show(changeGraphType(Page, v))

\* 'input' on #data-source: the user selected another option
ChangeDataSource(v) ==
    /\ v # app.dataSource
    /\ Show(changeDataSource(Page, v))

\* 'change' on .elos: the user checked another radio button
ChangeElos(v) ==
    /\ v # app.eloSuffix
    /\ Show(changeElos(Page, DATA, v))

\* 'change' on .colors: the user checked another radio button
ChangeColors(v) ==
    /\ v # app.aggregation
    /\ Show(changeColors(Page, DATA, v))

\* the user clicks the k-th checkbox of #filters, which is not disabled: the
\* browser flips it and 'input' on .filters runs changeKeyFilter
ToggleCheckbox(k) ==
    /\ k \in DOMAIN dom.boxes
    /\ dom.boxes[k] \notin dom.disabled
    /\ LET name    == dom.boxes[k]
           checked == name \notin dom.checked
           flipped == [Page EXCEPT !.dom.checked =
                                       IF checked THEN @ \cup {name}
                                       ELSE @ \ {name}]
       IN  Show(changeKeyFilter(flipped, name, checked))

\* 'input' on #time: the user moved the slider to t, between its min, 0,
\* and its max, the endTime of the chart as it was last drawn
SliderInput(t) ==
    /\ t >= 0 /\ t <= app.endTime
    /\ t # app.currentTime
    /\ Show(updateHeatmapSlider(Page, t))

\* 'mousedown' on the chart area, at the abscissa that rounds to x
MouseDown(x) == Show(updateHeatmapCursor(Page, x))

(***************************************************************************)
(* SpecView: the page opened on a blob the ETL wrote from up to two games, *)
(* and the events that derive this.data again.                             *)
(***************************************************************************)
ViewGames ==
    {GameOf(w, 2000, ms) :
        w \in {1200, 1500},
        ms \in {<<TokWe4, TokBNf6>>, <<TokWOO, TokBNf6>>}} \cup
    {GameOf(1200, 2000, <<TokWf4>>)}

ViewBlobs ==
    {getJson(processGame(processGame(NewCounts, g1), g2)) :
        g1 \in ViewGames \cup {NoGame}, g2 \in ViewGames \cup {NoGame}}

\* the page has no DataAggregator
InitNoAggregator ==
    /\ counts = <<>>
    /\ totalGamesCounted = 0
    /\ game = NoGame
    /\ noPiece = <<>>
    /\ elo = NaN
    /\ suffix = "none"
    /\ log = <<>>
    /\ dataJs = <<>>
    /\ codec = NoCodec

InitPage(blobs) ==
    /\ InitNoAggregator
    /\ InitNoCounts
    /\ rd = [r \in Readers |-> Unstarted(<<>>)]
    /\ \E blob \in blobs :
          /\ DATA = loadData(blob)
          /\ app = newApp(loadData(blob)).app
          /\ dom = newApp(loadData(blob)).dom
          /\ thrown = newApp(loadData(blob)).thrown

InitView == InitPage(ViewBlobs)

NextView ==
    \/ \E v \in Suffixes : ChangeElos(v)
    \/ \E v \in Aggregations : ChangeColors(v)

SpecView == InitView /\ [][NextView]_vars

(***************************************************************************)
(* SpecApp: the page opened on a blob of the ETL, and every event of       *)
(* registerEvents.                                                         *)
(***************************************************************************)
InitApp == InitPage(AppBlobs)

\* the tiers and the colour modes the user of SpecApp goes through
AppSuffixes == {"", "_hi"}

AppAggregations == {"separate", "white"}

NextApp ==
    \/ \E v \in GraphTypes : ChangeGraphType(v)
    \/ \E v \in DataSources : ChangeDataSource(v)
    \/ \E v \in AppSuffixes : ChangeElos(v)
    \/ \E v \in AppAggregations : ChangeColors(v)
    \/ \E k \in 1..MaxKeys : ToggleCheckbox(k)

SpecApp == InitApp /\ [][NextApp]_vars

(***************************************************************************)
(* SpecTime: the page opened on a blob of the ETL, every event of          *)
(* registerEvents with every tier and colour mode, and the events of the   *)
(* slider and of the chart that move the current ply.                      *)
(***************************************************************************)
\* the plies the slider and the mouse are moved to
Times == {0, 10, 99, 100, 150, 199, 200}

NextTime ==
    \/ \E t \in Times : SliderInput(t)
    \/ \E x \in Times : MouseDown(x)
    \/ \E v \in GraphTypes : ChangeGraphType(v)
    \/ \E v \in DataSources : ChangeDataSource(v)
    \/ \E v \in Aggregations : ChangeColors(v)
    \/ \E v \in Suffixes : ChangeElos(v)
    \/ \E k \in 1..MaxBoxes : ToggleCheckbox(k)

SpecTime == InitApp /\ [][NextTime]_vars

(***************************************************************************)
(* Reading the table as the blob's consumer does: a ply the series does    *)
(* not hold reads as 0.                                                    *)
(***************************************************************************)
At(c, name, p) == IF p < Len(c[name]) THEN c[name][p + 1] ELSE 0

Plies == 0..MaxMoves

TierSuffixes == {"_low", "_mid", "_hi"}

BaseNames == {n \in CounterNames : \A s \in TierSuffixes : n \o s \in CounterNames}

TieredNames == {n \o s : n \in BaseNames, s \in TierSuffixes}

\* the counter name of a move's destination, without tier
PosName(move) ==
    IF getMoveRC(move) = "null" THEN "pos_castle" ELSE "pos_" \o getMoveRC(move)

\* a step of the behaviour is a processGame call on game'
Processed == totalGamesCounted' = totalGamesCounted + 1

MovesOf(g) == 0..(Len(g.moves) - 1)

(***************************************************************************)
(* C1.  Every move of a game handed to processGame, the moves of a mover   *)
(* with unknown rating included, raises the untiered pos_<destination>     *)
(* (pos_castle when no destination resolves) by 1 at its ply; the tiered   *)
(* pos_<destination><tier> is raised as well exactly when the mover's      *)
(* rating is known.                                                        *)
(***************************************************************************)
C1_PosCountedForEveryMove ==
    [][Processed =>
        \A i \in MovesOf(game') :
            LET m == game'.moves[i + 1]
                e == moverElo(game', i)
            IN  /\ At(counts', PosName(m), i) = At(counts, PosName(m), i) + 1
                /\ \A s \in TierSuffixes :
                      At(counts', PosName(m) \o s, i) =
                      At(counts, PosName(m) \o s, i) +
                      (IF ~isNaN(e) /\ s = eloSuffix(e) THEN 1 ELSE 0)]_vars

C4_TierBoundaries ==
    (suffix # "none" /\ ~isNaN(elo)) =>
        /\ (suffix = "_low") <=> (elo < 1225)
        /\ (suffix = "_hi") <=> (elo > 1875)
        /\ (suffix = "_mid") <=> (elo >= 1225 /\ elo <= 1875)

(***************************************************************************)
(* C5.  At every ply p the stored total is at least the sum of the seven   *)
(* untiered piece series, with equality iff every move counted at p had a  *)
(* piece letter found in PIECES.                                           *)
(***************************************************************************)
PieceSum(c, p) ==
    At(c, "pawn", p) + At(c, "knight", p) + At(c, "rook", p) +
    At(c, "bishop", p) + At(c, "queen", p) + At(c, "king", p) +
    At(c, "castling", p)

NoPieceAt(p) == IF p < Len(noPiece) THEN noPiece[p + 1] ELSE 0

C5_TotalCoversPieces ==
    \A p \in Plies :
        /\ At(counts, "total", p) >= PieceSum(counts, p)
        /\ (At(counts, "total", p) = PieceSum(counts, p)) <=> (NoPieceAt(p) = 0)

\* two games processed: at ply 0 every move had a piece letter (equality of
\* two non-zero numbers), at ply 1 one move had none (strictly more)
C5_Witness ==
    /\ totalGamesCounted = 2
    /\ At(counts, "total", 0) = 2 /\ PieceSum(counts, 0) = 2
    /\ At(counts, "total", 1) = 2 /\ PieceSum(counts, 1) = 1
    /\ NoPieceAt(1) = 1

(***************************************************************************)
(* C6.  For every base counter X (total, each piece, each pos_<cell>,      *)
(* pos_castle) and every ply p, X_low[p] + X_mid[p] + X_hi[p] <= X[p].     *)
(***************************************************************************)
TierSum(c, n, p) == At(c, n \o "_low", p) + At(c, n \o "_mid", p) + At(c, n \o "_hi", p)

C6_TiersWithinUntiered ==
    \A n \in BaseNames : \A p \in Plies : TierSum(counts, n, p) <= At(counts, n, p)

\* a rated and an unrated move counted at ply 0, to the same cell: the tiers
\* of total hold fewer than total, those of the cell no more than the cell
C6_Witness ==
    /\ totalGamesCounted = 2
    /\ At(counts, "total", 0) = 2 /\ TierSum(counts, "total", 0) = 1
    /\ At(counts, "pos_e4", 0) = 1 /\ TierSum(counts, "pos_e4", 0) = 1
    /\ At(counts, "pawn", 0) = 2 /\ TierSum(counts, "pawn", 0) = 1

(***************************************************************************)
(* Reading the history of callbacks.                                       *)
(***************************************************************************)
Calls(ev, by) == Cardinality({k \in DOMAIN log : log[k] = Event(ev, by)})

\* some ev1 callback was invoked before some ev2 callback
Before(e1, e2) == \E j, k \in DOMAIN log : j < k /\ log[j] = e1 /\ log[k] = e2

\* reader r was closed and has no line left to hand to its handler
Finished(r) == rd[r].status = "closed" /\ rd[r].pos = rd[r].avail

\* the lines since the movetext line before line k (k excluded)
SinceMovetext(lines, k) ==
    {j \in 1..(k - 1) : \A m \in j..(k - 1) : ~MOVE_1_PATTERN(lines[m])}

\* line k of a rated file is a movetext line that completes a game: a Date
\* line and a Result line precede it in its group, and it yields two moves
CompletesGame(lines, k) ==
    /\ MOVE_1_PATTERN(lines[k])
    /\ \E j \in SinceMovetext(lines, k) : lines[j].tag = "Date"
    /\ \E j \in SinceMovetext(lines, k) : lines[j].tag = "Result"
    /\ Cardinality({i \in DOMAIN lines[k].items : MOVE_PATTERN(lines[k].items[i])}) >= 2

\* the games an input file holds
GamesIn(r) ==
    IF r = "pro"
    THEN Cardinality({k \in DOMAIN rd[r].lines : ~proSkipped(rd[r].lines[k])})
    ELSE Cardinality({k \in DOMAIN rd[r].lines : CompletesGame(rd[r].lines, k)})

(***************************************************************************)
(* C7.  For each run of a format reader the completion callback is invoked *)
(* exactly once and no onGame callback is invoked after it, also when the  *)
(* cap is reached while lines of the current chunk are still to be         *)
(* emitted.                                                                *)
(***************************************************************************)
C7_DoneOnceAndLast ==
    \A r \in Readers :
        /\ Calls("done", r) <= 1
        /\ rd[r].status = "closed" => Calls("done", r) = 1
        /\ ~Before(Event("done", r), Event("game", r))

(***************************************************************************)
(* C8.  For every cap maxGames >= 0 one run of a reader invokes onGame at  *)
(* most maxGames times, and once for every game of the input when the      *)
(* input holds fewer than maxGames games.                                  *)
(***************************************************************************)
C8_AtMostCapGames ==
    \A r \in Readers :
        rd[r].status # "unstarted" =>
            /\ Calls("game", r) <= rd[r].maxQuantity
            /\ (Finished(r) /\ GamesIn(r) < rd[r].maxQuantity) =>
                   Calls("game", r) = GamesIn(r)

(***************************************************************************)
(* C9.  In the chain, every processGame call for a pro record happens      *)
(* before the rated reader is started, every processGame call happens      *)
(* before data.js is written, and data.js is written exactly once.         *)
(***************************************************************************)
C9_ChainInOrder ==
    /\ ~Before(Event("start", "lichess"), Event("game", "pro"))
    /\ \A r \in Readers : ~Before(Event("write", "lichess"), Event("game", r))
    /\ Calls("write", "lichess") <= 1
    /\ Calls("write", "lichess") = Len(dataJs)
    /\ rd["lichess"].status = "closed" => Calls("write", "lichess") = 1

(***************************************************************************)
(* C10.  The rated reader invokes onGame at a line iff the line is a       *)
(* movetext line, a Date line and a Result line were matched since the     *)
(* previous movetext line, and the movetext yields at least two moves;     *)
(* a movetext line that does not is dropped and leaves the sequence index  *)
(* as it was; after any movetext line the accumulated date, result,        *)
(* ratings and moves are blank.                                            *)
(***************************************************************************)
C10_EmitsCompleteGroupsOnly ==
    [][rd'["lichess"].pos = rd["lichess"].pos + 1 =>
        LET lines   == rd["lichess"].lines
            k       == rd["lichess"].pos + 1
            emitted == Calls("game", "lichess")' = Calls("game", "lichess") + 1
            dropped == Calls("game", "lichess")' = Calls("game", "lichess")
        IN  /\ emitted <=> CompletesGame(lines, k)
            /\ ~emitted => dropped
            /\ rd'["lichess"].index =
                   rd["lichess"].index + (IF CompletesGame(lines, k) THEN 1 ELSE 0)
            /\ MOVE_1_PATTERN(lines[k]) =>
                   /\ rd'["lichess"].date = NullDate
                   /\ rd'["lichess"].result = NullResult
                   /\ isNaN(rd'["lichess"].welo)
                   /\ isNaN(rd'["lichess"].belo)
                   /\ rd'["lichess"].moves = <<>>]_vars

\* a group without result was dropped, then a whole game was emitted, and
\* the parser state is blank again
C10_Witness ==
    /\ rd["lichess"].lines =
           <<LDate, LTwoMoves, LDate, LWhiteElo, LBlackElo, LResult, LTwoMoves>>
    /\ rd["lichess"].pos = 7
    /\ rd["lichess"].maxQuantity = 2
    /\ Calls("game", "lichess") = 1
    /\ rd["lichess"].index = 1
    /\ game.welo = 1200 /\ game.belo = 2000 /\ Len(game.moves) = 2
    /\ rd["lichess"].date = NullDate /\ isNaN(rd["lichess"].welo)

(***************************************************************************)
(* The tokens a movetext line stands for: one per move, in order; a move   *)
(* written with one dot is white's, any other is black's, and a move       *)
(* without a number of its own has the number of the move before it.       *)
(***************************************************************************)
NumberOf(items, k) ==
    IF Len(items[k].num) >= 1 \/ k = 1 THEN items[k].num ELSE items[k - 1].num

TokenOf(items, k) ==
    <<IF items[k].dots = "." THEN "W" ELSE "B">>
    \o NumberOf(items, k) \o <<".">> \o items[k].san

TokensOf(line) == [k \in DOMAIN line.items |-> TokenOf(line.items, k)]

\* line k of a rated file is a movetext line with a Date line and a Result
\* line in its group
MovetextWithMetadata(lines, k) ==
    /\ MOVE_1_PATTERN(lines[k])
    /\ \E j \in SinceMovetext(lines, k) : lines[j].tag = "Date"
    /\ \E j \in SinceMovetext(lines, k) : lines[j].tag = "Result"

(***************************************************************************)
(* C11.  A movetext line of two moves or more that follows complete        *)
(* metadata emits exactly one record, whose moves are one normalized token *)
(* per move of the line, in order, whether or not a brace annotation       *)
(* follows the move and whether or not black's move has its own number.    *)
(***************************************************************************)
C11_OneTokenPerMove ==
    [][rd'["lichess"].pos = rd["lichess"].pos + 1 =>
        LET lines == rd["lichess"].lines
            k     == rd["lichess"].pos + 1
        IN  (MovetextWithMetadata(lines, k) /\ Len(lines[k].items) >= 2) =>
                /\ Calls("game", "lichess")' = Calls("game", "lichess") + 1
                /\ game'.moves = TokensOf(lines[k])]_vars

(***************************************************************************)
(* The name spaces of the blob, and the rating and tier of a move as the   *)
(* glossary gives them.                                                    *)
(***************************************************************************)
PieceSeries ==
    {v \o s : v \in {"pawn", "knight", "rook", "castling", "queen", "bishop", "king"},
              s \in {"", "_low", "_mid", "_hi"}}

CellSeries ==
    {"pos_" \o f \o r \o s :
        f \in {"a", "b", "c", "d", "e", "f", "g", "h"},
        r \in {"1", "2", "3", "4", "5", "6", "7", "8"},
        s \in {"", "_low", "_mid", "_hi"}}

RatingOfMover(g, i) ==
    IF CharAt(g.moves[i + 1], 0) = "W" THEN g.welo
    ELSE IF CharAt(g.moves[i + 1], 0) = "B" THEN g.belo ELSE NaN

TierOf(r) == IF r < 1225 THEN "_low" ELSE IF r > 1875 THEN "_hi" ELSE "_mid"

\* the first character of the notation of a token: the one after its first '.'
FirstNotationChar(move) ==
    IF IndexOf(move, ".") = -1 THEN Undefined
    ELSE CharAt(move, IndexOf(move, ".") + 1)

(***************************************************************************)
(* C12.  A move without resolvable destination by a mover whose rating is  *)
(* known, in tier t, raises pos_castle and pos_castle<t> by exactly 1 at   *)
(* its ply and changes none of the 64 per-cell pos_ series there, tiered   *)
(* or untiered.                                                            *)
(***************************************************************************)
C12_NoDestinationCountsCastle ==
    [][Processed =>
        \A i \in MovesOf(game') :
            LET m == game'.moves[i + 1]
                r == RatingOfMover(game', i)
            IN  (getMoveRC(m) = "null" /\ ~isNaN(r)) =>
                    /\ At(counts', "pos_castle", i) = At(counts, "pos_castle", i) + 1
                    /\ At(counts', "pos_castle" \o TierOf(r), i) =
                           At(counts, "pos_castle" \o TierOf(r), i) + 1
                    /\ \A n \in CellSeries : At(counts', n, i) = At(counts, n, i)]_vars

\* white, rated low, castled at ply 1 after a pawn move to e4 at ply 0
C12_Witness ==
    /\ game = GameOf(1200, NaN, <<TokWe4, TokWOO>>)
    /\ totalGamesCounted = 1
    /\ counts["pos_castle"] = <<0, 1>>
    /\ counts["pos_castle_low"] = <<0, 1>>
    /\ counts["pos_e4"] = <<1>>
    /\ counts["pos_castle_mid"] = <<>>

(***************************************************************************)
(* C13 as stated.  A castling move (first notation character O) changes no *)
(* series of the per-piece name space {pawn, knight, rook, castling,       *)
(* queen, bishop, king} x {"", _low, _mid, _hi} at its ply.                *)
(***************************************************************************)
C13_CastlingTouchesNoPiece ==
    [][Processed =>
        \A i \in MovesOf(game') :
            FirstNotationChar(game'.moves[i + 1]) = "O" =>
                \A n \in PieceSeries : At(counts', n, i) = At(counts, n, i)]_vars

(***************************************************************************)
(* C13 as amended.  A castling move raises castling by 1 at its ply, and   *)
(* castling<tier> by 1 when the mover's rating is known, and changes no    *)
(* other series of the per-piece name space there: king and king<tier>     *)
(* are not incremented.                                                    *)
(***************************************************************************)
C13_CastlingCountsAsCastlingOnly ==
    [][Processed =>
        \A i \in MovesOf(game') :
            LET r == RatingOfMover(game', i)
            IN  FirstNotationChar(game'.moves[i + 1]) = "O" =>
                    \A n \in PieceSeries :
                        At(counts', n, i) =
                        At(counts, n, i) +
                        (IF n = "castling" \/ (~isNaN(r) /\ n = "castling" \o TierOf(r))
                         THEN 1 ELSE 0)]_vars

\* white, rated low, castled at ply 1: castling and castling_low hold the
\* move, no king series does
C13_Witness ==
    /\ game = GameOf(1200, 2000, <<TokBNf6, TokWOO>>)
    /\ totalGamesCounted = 1
    /\ counts["castling"] = <<0, 1>>
    /\ counts["castling_low"] = <<0, 1>>
    /\ counts["knight_hi"] = <<1>>
    /\ \A s \in {"", "_low", "_mid", "_hi"} : counts["king" \o s] = <<>>

(***************************************************************************)
(* C14.  A move whose first character after the first '.' is not in the    *)
(* piece table, or whose token has no '.', raises no error (every name     *)
(* looked up for it is a key of the table), changes no per-piece series at *)
(* its ply, tiered or untiered, and raises total by 1 there.               *)
(***************************************************************************)
C14_UnknownPieceStillInTotal ==
    [][Processed =>
        /\ DOMAIN counts' = CounterNames
        /\ \A i \in MovesOf(game') :
              LET m == game'.moves[i + 1]
              IN  FirstNotationChar(m) \notin DOMAIN PIECES =>
                      /\ PosName(m) \in DOMAIN counts
                      /\ At(counts', "total", i) = At(counts, "total", i) + 1
                      /\ \A n \in PieceSeries : At(counts', n, i) = At(counts, n, i)]_vars

\* a token without '.' at ply 0 and one with a letter outside the table at
\* ply 1, both by rated movers: counted in total, in no piece series
C14_Witness ==
    /\ game = GameOf(1200, 2000, <<Toke4, TokBnf6>>)
    /\ totalGamesCounted = 1
    /\ counts["total"] = <<1, 1>>
    /\ counts["total_hi"] = <<0, 1>>
    /\ \A n \in PieceSeries : counts[n] = <<>>

(***************************************************************************)
(* Reading a series by index, 0-based: an index the series does not hold   *)
(* reads as 0.                                                             *)
(***************************************************************************)
Entry(s, i) == IF i >= 0 /\ i < Len(s) THEN s[i + 1] ELSE 0

Max(a, b) == IF a > b THEN a ELSE b

(***************************************************************************)
(* C15.  Each count(n), n >= 0, on a Counter of the ETL raises entry n by  *)
(* exactly 1, leaves every other existing entry as it was, and sets the    *)
(* length to max(old length, n + 1) with the new intermediate entries 0:   *)
(* the length never decreases and no entry decreases or is overwritten.    *)
(***************************************************************************)
C15_CountOnlyGrows ==
    (series.class = "etl" /\ call.op = "count") =>
        /\ Len(series.data) = Max(Len(call.was), call.n + 1)
        /\ Len(series.data) >= Len(call.was)
        /\ \A i \in 0..(Len(series.data) - 1) :
              /\ series.data[i + 1] >= Entry(call.was, i)
              /\ series.data[i + 1] =
                     Entry(call.was, i) + (IF i = call.n THEN 1 ELSE 0)

\* count(3) on the series [1, 2]: the series is now [1, 2, 0, 1]
C15_Witness ==
    /\ series.class = "etl"
    /\ call.op = "count" /\ call.n = 3
    /\ call.was = <<1, 2>>
    /\ series.data = <<1, 2, 0, 1>>

(***************************************************************************)
(* C16.  For every Counter, of the ETL or of the front end, get(n) with    *)
(* n < 0 or n >= the length of the series returns 0.                       *)
(***************************************************************************)
C16_GetOutOfRangeIsZero ==
    (call.op = "get" /\ (call.n < 0 \/ call.n >= Len(series.data))) => got = 0

\* get(3) on a front-end series of 3 non-zero entries returned 0, and get(-2)
\* is among the calls tried
C16_Witness ==
    /\ series.class = "front"
    /\ series.data = <<1, 2, 1>>
    /\ call.op = "get" /\ call.n = 3
    /\ got = 0

(***************************************************************************)
(* C17.  getDomain(low, high) returns one {x, y} pair for each integer ply *)
(* of [low, high), in ascending order, with y the stored count at the ply  *)
(* whenever 0 <= ply < length, ply 0 included, and 0 only when the ply is  *)
(* out of range.                                                           *)
(***************************************************************************)
C17_DomainReadsEveryPly ==
    call.op = "getDomain" =>
        /\ Len(points) = Max(call.high - call.low, 0)
        /\ \A k \in DOMAIN points :
              /\ points[k].x = call.low + k - 1
              /\ points[k].y = Entry(series.data, points[k].x)

(***************************************************************************)
(* C18.  For a series s of even length L, aggregateBy("aggregated") yields *)
(* the series of length L/2 whose i-th entry is s[2i] + s[2i+1],           *)
(* aggregateBy("white") the series whose i-th entry is s[2i],              *)
(* aggregateBy("black") the series whose i-th entry is s[2i+1], and        *)
(* aggregateBy("separate") leaves s unchanged.                             *)
(***************************************************************************)
C18_AggregateByOnEvenLength ==
    (call.op = "aggregateBy" /\ Len(call.was) % 2 = 0) =>
        LET s == call.was
            L == Len(call.was)
        IN  IF call.aggregation = "separate" THEN series.data = s
            ELSE /\ Len(series.data) = L \div 2
                 /\ \A i \in 0..((L \div 2) - 1) :
                       series.data[i + 1] =
                           CASE call.aggregation = "aggregated" ->
                                    s[2 * i + 1] + s[2 * i + 2]
                             [] call.aggregation = "white" -> s[2 * i + 1]
                             [] call.aggregation = "black" -> s[2 * i + 2]

\* the series [1, 2, 0, 1] was aggregated to [3, 1]
C18_Witness ==
    /\ call.op = "aggregateBy" /\ call.aggregation = "aggregated"
    /\ call.was = <<1, 2, 0, 1>>
    /\ series.data = <<3, 1>>

(***************************************************************************)
(* Reading the page: the series of the blob under a key, the data of the   *)
(* i-th item of a data source of this.data, and the sum of the entries at  *)
(* ply p of the data of the first n items.                                 *)
(***************************************************************************)
SeriesOfKey(key) ==
    DATA.eventsByMove[CHOOSE k \in DOMAIN DATA.eventsByMove :
                          DATA.eventsByMove[k].name = key].data

ItemData(source, i) == app.data[source][i].data.data

RECURSIVE SumAt(_, _, _)
SumAt(source, n, p) ==
    IF n = 0 THEN 0 ELSE SumAt(source, n - 1, p) + Entry(ItemData(source, n), p)

RECURSIVE CellSumAt(_, _, _)
CellSumAt(sfx, n, p) ==
    IF n = 0 THEN 0
    ELSE CellSumAt(sfx, n - 1, p) +
         Entry(SeriesOfKey("pos_" \o FileChars[((n - 1) \div 8) + 1]
                                  \o RankChars[((n - 1) % 8) + 1] \o sfx), p)

(***************************************************************************)
(* C19.  With colour mode 'separate', for the tier suffix s shown and      *)
(* every ply p, the sum over the 8 rows of sumRow(r, s).data[p] equals the *)
(* sum over the 8 columns of sumCol(c, s).data[p] and equals the sum over  *)
(* the 64 cells of the blob series pos_<cell><s> at p: no series of        *)
(* another tier and no pos_castle series contributes.                      *)
(***************************************************************************)
C19_RowsAndColumnsCoverCells ==
    app.aggregation = "separate" =>
        \A p \in Plies :
            /\ SumAt("rows", 8, p) = CellSumAt(app.eloSuffix, 64, p)
            /\ SumAt("columns", 8, p) = CellSumAt(app.eloSuffix, 64, p)

\* the high-tier view of a blob in which, at ply 0, a player of the low tier
\* moved to e4 and one of the middle tier castled, and at ply 1 two players
\* of the high tier moved to f6: the rows and the columns sum to 0 at ply 0
\* and to 2 at ply 1
C19_Witness ==
    /\ app.aggregation = "separate" /\ app.eloSuffix = "_hi"
    /\ Entry(SeriesOfKey("pos_e4_low"), 0) = 1
    /\ Entry(SeriesOfKey("pos_castle_mid"), 0) = 1
    /\ Entry(SeriesOfKey("pos_f6"), 1) = 2
    /\ SumAt("rows", 8, 0) = 0 /\ SumAt("columns", 8, 0) = 0
    /\ SumAt("rows", 8, 1) = 2 /\ SumAt("columns", 8, 1) = 2

(***************************************************************************)
(* C20.  After any sequence of events of the page, keyFilter holds at most *)
(* 10 keys; while it holds 10, every checkbox that is not selected is      *)
(* disabled, and no checkbox is disabled once it holds fewer.              *)
(***************************************************************************)
C20_AtMostTenSelected ==
    /\ Cardinality(app.keyFilter) <= 10
    /\ Cardinality(app.keyFilter) = 10 =>
           \A k \in DOMAIN dom.boxes :
               dom.boxes[k] \notin app.keyFilter => dom.boxes[k] \in dom.disabled
    /\ Cardinality(app.keyFilter) < 10 => dom.disabled = {}

\* ten destinations are selected in the high-tier view and the other
\* checkboxes are disabled
C20_Witness ==
    /\ app.dataSource = "destination"
    /\ app.eloSuffix = "_hi"
    /\ Cardinality(app.keyFilter) = 10
    /\ Cardinality(dom.disabled) = 54
    /\ "a1" \notin app.keyFilter /\ "a1" \in dom.disabled

(***************************************************************************)
(* C21.  In every game record a reader hands to processGame, the move at   *)
(* position i of the move list was made by white if and only if i is even. *)
(***************************************************************************)
C21_PlyParityIsMover ==
    \A i \in MovesOf(game) :
        (CharAt(game.moves[i + 1], 0) = "W") <=> (i % 2 = 0)

(***************************************************************************)
(* The two characters the destination is read from, as the design gives    *)
(* them: after the trailing glyphs + # ? ! are skipped, and then a         *)
(* promotion marker = with the letter after it, the last two characters.   *)
(***************************************************************************)
RECURSIVE WithoutGlyphs(_)
WithoutGlyphs(s) ==
    IF Len(s) > 0 /\ s[Len(s)] \in {"+", "#", "?", "!"}
    THEN WithoutGlyphs(SubSeq(s, 1, Len(s) - 1))
    ELSE s

WithoutPromotion(s) ==
    IF Len(s) >= 2 /\ s[Len(s) - 1] = "=" THEN SubSeq(s, 1, Len(s) - 2) ELSE s

EndsInCell(s) ==
    LET t == WithoutPromotion(WithoutGlyphs(s))
    IN  /\ Len(t) >= 2
        /\ t[Len(t) - 1] \in {"a", "b", "c", "d", "e", "f", "g", "h"}
        /\ t[Len(t)] \in {"1", "2", "3", "4", "5", "6", "7", "8"}

CellNames ==
    {f \o r : f \in {"a", "b", "c", "d", "e", "f", "g", "h"},
              r \in {"1", "2", "3", "4", "5", "6", "7", "8"}}

(***************************************************************************)
(* C22.  For a token made of a mover-ply prefix, an optional body, a cell, *)
(* an optional promotion and any trailing glyphs, getMoveRC returns that   *)
(* cell; for a token whose two characters at that position are not a file  *)
(* a-h followed by a rank 1-8 it returns null; it returns nothing but null *)
(* or the name of a cell.                                                  *)
(***************************************************************************)
C22_GetMoveRCReturnsTheCell ==
    codec.rowcol # "none" =>
        /\ codec.parts.kind = "cell" =>
               codec.rowcol = codec.parts.cell[1] \o codec.parts.cell[2]
        /\ ~EndsInCell(codec.move) => codec.rowcol = "null"
        /\ codec.rowcol \in CellNames \cup {"null"}

\* B12.Nxe8=Q+# gave e8
C22_Witness ==
    /\ codec.move = <<"B", "1", "2", ".", "N", "x", "e", "8", "=", "Q", "+", "#">>
    /\ codec.rowcol = "e8"

(***************************************************************************)
(* C23.  After any sequence of events of the page, the current ply is at   *)
(* least startTime and less than endTime, and the handler that ran last    *)
(* did not fail in redrawSummary.                                          *)
(***************************************************************************)
C23_CurrentTimeInRange ==
    /\ app.startTime <= app.currentTime
    /\ app.currentTime < app.endTime
    /\ ~thrown

(***************************************************************************)
(* The metadata lines of the game whose movetext is line k: a game starts  *)
(* at its Event line, so they are the lines before k since the last Event  *)
(* line, or since the movetext line before when no Event line follows it.  *)
(***************************************************************************)
OwnLines(lines, k) ==
    {j \in SinceMovetext(lines, k) :
        \A m \in (j + 1)..(k - 1) : lines[m].tag # "Event"}

HasOwn(lines, k, tag) == \E j \in OwnLines(lines, k) : lines[j].tag = tag

\* the last line with the tag among them
OwnLine(lines, k, tag) ==
    lines[CHOOSE j \in OwnLines(lines, k) :
              /\ lines[j].tag = tag
              /\ \A m \in OwnLines(lines, k) : lines[m].tag = tag => m <= j]

OwnRating(lines, k, tag) ==
    IF HasOwn(lines, k, tag) THEN parseInt(OwnLine(lines, k, tag).groups[1])
    ELSE NaN

(***************************************************************************)
(* C24.  A record the rated reader emits carries the metadata of its own   *)
(* game only: its date and result are those of the Date and Result lines   *)
(* of the game of the movetext, and each rating is that of the game's      *)
(* rating line, unknown when the game has none, also when an earlier game  *)
(* had metadata lines and no movetext line.                                *)
(***************************************************************************)
C24_RecordHasOwnMetadata ==
    [][(/\ rd'["lichess"].pos = rd["lichess"].pos + 1
        /\ Calls("game", "lichess")' = Calls("game", "lichess") + 1) =>
        LET lines == rd["lichess"].lines
            k     == rd["lichess"].pos + 1
        IN  /\ game'.welo = OwnRating(lines, k, "WhiteElo")
            /\ game'.belo = OwnRating(lines, k, "BlackElo")
            /\ HasOwn(lines, k, "Date")
            /\ HasOwn(lines, k, "Result")
            /\ game'.result = OwnLine(lines, k, "Result").groups[1]]_vars

(***************************************************************************)
(* The sum of the entries of a series.                                     *)
(***************************************************************************)
RECURSIVE SumOf(_)
SumOf(s) == IF Len(s) = 0 THEN 0 ELSE Head(s) + SumOf(Tail(s))

(***************************************************************************)
(* C26.  For a series s of any length, the white view holds s[2i] at i,    *)
(* the black view s[2i+1] and the aggregated view their sum, an entry that *)
(* a series does not hold reading as 0; and the entries of the aggregated  *)
(* view add up to what the entries of s add up to.                         *)
(***************************************************************************)
C26_ColourViewsLoseNoCount ==
    call.op = "aggregateBy" =>
        \A i \in 0..Len(call.was) :
            CASE call.aggregation = "white" ->
                     Entry(series.data, i) = Entry(call.was, 2 * i)
              [] call.aggregation = "black" ->
                     Entry(series.data, i) = Entry(call.was, 2 * i + 1)
              [] call.aggregation = "aggregated" ->
                     /\ Entry(series.data, i) =
                            Entry(call.was, 2 * i) + Entry(call.was, 2 * i + 1)
                     /\ SumOf(series.data) = SumOf(call.was)
              [] OTHER -> series.data = call.was

(***************************************************************************)
(* The sum at ply p of the data of the destination items i of the view     *)
(* with lo <= i <= hi and i = lo modulo step: the cells of a column are 8  *)
(* consecutive items, those of a row are 8 items 8 apart.                  *)
(***************************************************************************)
RECURSIVE CellItemsAt(_, _, _, _)
CellItemsAt(lo, hi, step, p) ==
    IF lo > hi THEN 0
    ELSE Entry(ItemData("destination", lo), p) + CellItemsAt(lo + step, hi, step, p)

(***************************************************************************)
(* C25.  For the tier and the colour mode shown, every row r and every ply *)
(* p, sumRow(r).data[p] is the sum over the 8 files f of                   *)
(* findData(pos_<f><r><tier>, mode).data[p], and likewise sumCol for every *)
(* column, an entry that a series does not hold reading as 0.              *)
(***************************************************************************)
C25_AggregationCommutesWithSum ==
    \A k \in 1..8 : \A p \in Plies :
        /\ Entry(ItemData("rows", k), p) = CellItemsAt(k, 56 + k, 8, p)
        /\ Entry(ItemData("columns", k), p) =
               CellItemsAt(8 * (k - 1) + 1, 8 * k, 1, p)

Found(source, i) == app.data[source][i].data

(***************************************************************************)
(* C28.  On a blob the ETL produced, for the tier shown, the 7 piece keys  *)
(* and the 64 keys pos_<rowColString(i)><suffix> that processDataSources   *)
(* looks up are names of the blob, the 64 are distinct, and no findData    *)
(* threw.                                                                  *)
(***************************************************************************)
C28_EveryQueriedKeyExists ==
    /\ \A k \in 1..7 :
          /\ Found("pieceType", k) # KeyNotFound
          /\ Found("pieceType", k).name \in keysOf(DATA)
    /\ \A i \in 1..64 :
          /\ Found("destination", i) # KeyNotFound
          /\ Found("destination", i).name \in keysOf(DATA)
          /\ Found("destination", i).name =
                 "pos_" \o app.data["destination"][i].name \o app.eloSuffix
    /\ Cardinality({Found("pieceType", k).name : k \in 1..7}) = 7
    /\ Cardinality({Found("destination", i).name : i \in 1..64}) = 64
    /\ Cardinality(keysOf(DATA)) = Len(DATA.eventsByMove)

\* the middle-tier view of a blob of two games, one with a castling move of
\* a middle-tier player
C28_Witness ==
    /\ app.eloSuffix = "_mid"
    /\ SeriesOfKey("total") = <<2, 2>>
    /\ SeriesOfKey("castling_mid") = <<1>>
    /\ Found("pieceType", 4) = [name |-> "castling_mid", data |-> <<1>>]
    /\ Found("destination", 64).name = "pos_h8_mid"
    /\ Found("destination", 1).name = "pos_a1_mid"

(***************************************************************************)
(* The names of the pos_ series of the 64 cells, per tier, and the sum at  *)
(* ply p of the first n of them.                                           *)
(***************************************************************************)
TierCellNames ==
    [t \in {"_low", "_mid", "_hi"} |->
        [n \in 1..64 |->
            "pos_" \o FileChars[((n - 1) \div 8) + 1]
                   \o RankChars[((n - 1) % 8) + 1] \o t]]

RECURSIVE TierCellsAt(_, _, _, _)
TierCellsAt(c, t, n, p) ==
    IF n = 0 THEN 0
    ELSE TierCellsAt(c, t, n - 1, p) + At(c, TierCellNames[t][n], p)

(***************************************************************************)
(* C29.  After any sequence of processGame calls, for every tier t of      *)
(* _low, _mid, _hi and every ply p, the pos_<cell><t> series of the 64     *)
(* cells and pos_castle<t> add up at p to total<t> at p.                   *)
(***************************************************************************)
C29_TierDestinationsCoverTierTotal ==
    \A t \in {"_low", "_mid", "_hi"} : \A p \in Plies :
        TierCellsAt(counts, t, 64, p) + At(counts, "pos_castle" \o t, p) =
            At(counts, "total" \o t, p)

\* two high-tier players moved at ply 0, one to e4 and one castling, and an
\* unrated player moved at ply 1
C29_Witness ==
    /\ totalGamesCounted = 2
    /\ At(counts, "total_hi", 0) = 2
    /\ At(counts, "pos_e4_hi", 0) = 1
    /\ At(counts, "pos_castle_hi", 0) = 1
    /\ At(counts, "total", 1) = 1
    /\ TierSum(counts, "total", 1) = 0

(***************************************************************************)
(* C30.  Every counter name processGame looks up for a move of a game      *)
(* record (total, total + tier, pos_ + destination, pos_ + destination +   *)
(* tier, piece, piece + tier) is a key of the table the constructor built, *)
(* whatever the token (the empty one included) and the ratings; and        *)
(* processGame neither adds nor removes a key: the keys are the same 292   *)
(* names before and after.                                                 *)
(***************************************************************************)
C30_LookedUpNamesAreKeys ==
    [][Processed =>
          /\ \A i \in 0..(Len(game'.moves) - 1) :
                 LookedUp(game', i) \subseteq DOMAIN counts
          /\ DOMAIN counts = CounterNames
          /\ DOMAIN counts' = CounterNames
          /\ Cardinality(CounterNames) = 292]_vars

\* a rated white move to i9, which names no cell, was counted as castle
C30_Witness ==
    /\ totalGamesCounted = 1
    /\ game.moves = << <<"W", "1", ".", "i", "9">> >>
    /\ game.welo = 1200
    /\ counts["total"] = <<1>>
    /\ counts["total_low"] = <<1>>
    /\ counts["pos_castle"] = <<1>>
    /\ counts["pos_castle_low"] = <<1>>
    /\ Cardinality(DOMAIN counts) = 292

=========================================================================
